---------------------------- MODULE Spec2Model ----------------------------
(***************************************************************************)
(* Model of the client-side refinement and streaming-chat pipeline of      *)
(* src/static/script.js.                                                   *)
(*                                                                         *)
(* Four specifications share the module's variables:                       *)
(*   Spec        the two chat surfaces (panel: streamChat, inline:         *)
(*               streamInlineChat), their abort controllers, transcripts   *)
(*               and cancellation;                                         *)
(*   SpecStream  one stream and the frame parser working on every chunking *)
(*               of every bounded response body;                           *)
(*   SpecRefine  refinePlacesWithConstraints applied to bounded place      *)
(*               lists and constraint objects;                             *)
(*   SpecParse   parseConstraints applied to bounded utterances;           *)
(*   SpecFrames  one stream answered with frames of every kind: payloads   *)
(*               with several content fields, error events, raw text and   *)
(*               sentinels;                                                *)
(*   SpecNorm    the normalizers of chat_shim.js and the explain payloads  *)
(*               built from raw provider records;                          *)
(*   SpecSession searches, "Why?" clicks, refinements and follow-ups on    *)
(*               the result set, the rendered list and the map markers.    *)
(*                                                                         *)
(* Text is a sequence of atoms: each atom stands for a non-empty run of    *)
(* characters, and string concatenation is sequence concatenation.  The    *)
(* response body is a sequence of wire symbols ("\n", the line prefixes    *)
(* "event:" and "data:", JSON punctuation, keys and values); the network   *)
(* may split it between any two symbols.                                   *)
(***************************************************************************)
EXTENDS Integers, Sequences, FiniteSets, TLC

VARIABLES
    reqs,                 \* every fetch started so far, in start order
    text,                 \* textContent of every bubble created so far
    panelOpen,            \* #chatPanel is in the document
    panelMsgs,            \* children of #chatMessages (bubble ids, in order)
    inlineMsgs,           \* children of #inlineChat (bubble ids, in order)
    chatAbortController,  \* _chatAbortController: 0 (null) or a request id
    inlineAbort,          \* _inlineAbort: 0 (null) or a request id
    script,               \* the frames the chat endpoint answers a stream with
    rf,                   \* SpecRefine: inputs and outputs of the re-ranker
    ps,                   \* SpecParse: utterance and parsed constraint
    nm,                   \* SpecNorm: raw record, weights, normalized places
    ui,                   \* SpecSession: result set, list, markers, payloads
    ex                    \* SpecExplain: a payload and the intro made of it

chatVars == <<reqs, text, panelOpen, panelMsgs, inlineMsgs,
              chatAbortController, inlineAbort>>
vars == <<reqs, text, panelOpen, panelMsgs, inlineMsgs,
          chatAbortController, inlineAbort, script, rf, ps, nm, ui, ex>>

(***************************************************************************)
(* Bounds of the model.                                                    *)
(***************************************************************************)
MaxReqs == 2      \* streams started in one behaviour of Spec
MaxFrames == 2    \* frames in one response body
MaxChunk == 11    \* symbols delivered by one reader.read()

(***************************************************************************)
(* Sequence helpers.                                                       *)
(***************************************************************************)
IsPrefix(s, t) == Len(s) <= Len(t) /\ SubSeq(t, 1, Len(s)) = s

RECURSIVE Flatten(_)
Flatten(ss) == IF ss = <<>> THEN <<>> ELSE Head(ss) \o Flatten(Tail(ss))

SeqsUpTo(S, n) == UNION {[1..k -> S] : k \in 0..n}

Range(s) == {s[i] : i \in DOMAIN s}

(***************************************************************************)
(* The wire format of /api/chat/stream.                                    *)
(***************************************************************************)
NL == "\n"

\* String.prototype.trim on a symbol sequence: newlines are the only
\* whitespace symbols of the wire alphabet.
RECURSIVE TrimLeft(_)
TrimLeft(s) == IF s # <<>> /\ Head(s) = NL THEN TrimLeft(Tail(s)) ELSE s

RECURSIVE TrimRight(_)
TrimRight(s) ==
    IF s # <<>> /\ s[Len(s)] = NL THEN TrimRight(SubSeq(s, 1, Len(s) - 1)) ELSE s

Trim(s) == TrimRight(TrimLeft(s))

\* buffer.indexOf('\n\n'), 1-based; 0 stands for JavaScript's -1.
IndexOfBlank(buf) ==
    LET hits == {i \in 1..(Len(buf) - 1) : buf[i] = NL /\ buf[i + 1] = NL}
    IN  IF hits = {} THEN 0 ELSE CHOOSE i \in hits : \A j \in hits : i <= j

\* frame.split('\n')
RECURSIVE SplitLines(_)
SplitLines(s) ==
    LET nls == {i \in 1..Len(s) : s[i] = NL}
    IN  IF nls = {} THEN <<s>>
        ELSE LET i == CHOOSE k \in nls : \A j \in nls : k <= j
             IN  <<SubSeq(s, 1, i - 1)>> \o SplitLines(SubSeq(s, i + 1, Len(s)))

\* dataLines.join('\n')
RECURSIVE JoinLines(_)
JoinLines(ls) ==
    IF ls = <<>> THEN <<>>
    ELSE IF Len(ls) = 1 THEN ls[1]
    ELSE ls[1] \o <<NL>> \o JoinLines(Tail(ls))

\* The for-loop over the frame's lines: the last "event:" line names the
\* event (default 'message'), every "data:" line contributes its rest.
RECURSIVE ScanLines(_, _, _)
ScanLines(lines, ev, dataLines) ==
    IF lines = <<>> THEN [ev |-> ev, dataRaw |-> JoinLines(dataLines)]
    ELSE LET line == Head(lines)
         IN  IF line # <<>> /\ Head(line) = "event:"
                THEN ScanLines(Tail(lines),
                               IF Len(line) >= 2 THEN line[2] ELSE "", dataLines)
             ELSE IF line # <<>> /\ Head(line) = "data:"
                THEN ScanLines(Tail(lines), ev, Append(dataLines, Tail(line)))
             ELSE ScanLines(Tail(lines), ev, dataLines)

ParseFrame(frame) == ScanLines(SplitLines(frame), "message", <<>>)

(***************************************************************************)
(* JSON.parse on the data of a frame.  An object is "{" k1 v1 ... kn vn    *)
(* "}" (newlines between the tokens are JSON whitespace); anything else    *)
(* of the wire alphabet makes JSON.parse throw.  The value "" is the empty *)
(* string.                                                                 *)
(***************************************************************************)
ContentFields == <<"content", "delta", "token", "text", "message">>

StripNL(s) == SelectSeq(s, LAMBDA x : x # NL)

IsJsonObject(dataRaw) ==
    LET t == StripNL(dataRaw)
    IN  /\ Len(t) >= 2
        /\ t[1] = "{"
        /\ t[Len(t)] = "}"
        /\ (Len(t) - 2) % 2 = 0
        /\ \A i \in 2..(Len(t) - 1) : t[i] \notin {"{", "}"}

\* The parsed object: key -> value, a later duplicate key winning.
JsonParse(dataRaw) ==
    LET t == StripNL(dataRaw)
        n == (Len(t) - 2) \div 2
        keys == {t[2 * i] : i \in 1..n}
    IN  [k \in keys |->
            LET last == CHOOSE i \in 1..n :
                            t[2 * i] = k /\ \A j \in 1..n : t[2 * j] = k => j <= i
            IN  t[2 * last + 1]]

\* p?.content ?? p?.delta ?? p?.token ?? p?.text ?? p?.message ?? ''
\* (?? skips only an absent field, not an empty one)
RECURSIVE FirstPresent(_, _)
FirstPresent(p, fields) ==
    IF fields = <<>> THEN ""
    ELSE IF Head(fields) \in DOMAIN p THEN p[Head(fields)]
    ELSE FirstPresent(p, Tail(fields))

\* appendFromPayload: if (piece) textContent += piece
appendFromPayload(p, txt) ==
    LET piece == FirstPresent(p, ContentFields)
    IN  IF piece # "" THEN Append(txt, piece) ELSE txt

\* (faulty variant of appendError: the annotation replaces the text)
appendErrorOnly(p, txt) ==
    LET m == IF "message" \in DOMAIN p /\ p["message"] # ""
                THEN p["message"] ELSE "JSON"
    IN  <<"[Error]", m>>

\* textContent += `\n\n[Error] ${payload.message || JSON.stringify(payload)}`
appendError(p, txt) ==
    LET m == IF "message" \in DOMAIN p /\ p["message"] # ""
                THEN p["message"] ELSE "JSON"
    IN  txt \o <<"[Error]", m>>

\* streamChat's try/switch/catch over one frame with non-empty data.
DispatchPanel(ev, dataRaw, txt) ==
    IF IsJsonObject(dataRaw)
    THEN LET payload == JsonParse(dataRaw)
         IN  CASE ev = "start" -> txt
               [] ev = "delta" -> appendFromPayload(payload, txt)
               [] ev = "done"  -> txt
               [] ev = "error" -> appendError(payload, txt)
               [] OTHER        -> appendFromPayload(payload, txt)
    ELSE IF dataRaw = <<"[DONE]">> \/ dataRaw = <<"DONE">> THEN txt
    ELSE txt \o dataRaw

\* (faulty variant of DispatchInline: data that is no JSON is dropped)
DispatchInlineJsonOnly(ev, dataRaw, txt) ==
    IF IsJsonObject(dataRaw)
    THEN LET payload == JsonParse(dataRaw)
         IN  IF ev = "error" THEN appendError(payload, txt)
             ELSE appendFromPayload(payload, txt)
    ELSE txt

\* streamInlineChat's try/if/catch over one frame with non-empty data.
DispatchInline(ev, dataRaw, txt) ==
    IF IsJsonObject(dataRaw)
    THEN LET payload == JsonParse(dataRaw)
         IN  IF ev = "error" THEN appendError(payload, txt)
             ELSE appendFromPayload(payload, txt)
    ELSE IF dataRaw # <<"[DONE]">> THEN txt \o dataRaw
    ELSE txt

Dispatch(surface, ev, dataRaw, txt) ==
    IF surface = "panel" THEN DispatchPanel(ev, dataRaw, txt)
    ELSE DispatchInline(ev, dataRaw, txt)

\* The inner while loop: extract every complete frame of the buffer, in
\* order, and leave the incomplete rest in the buffer.
RECURSIVE DrainFrames(_, _, _)
DrainFrames(surface, buffer, txt) ==
    LET idx == IndexOfBlank(buffer)
    IN  IF idx = 0 THEN [buffer |-> buffer, text |-> txt]
        ELSE LET frame == Trim(SubSeq(buffer, 1, idx - 1))
                 rest == SubSeq(buffer, idx + 2, Len(buffer))
                 f == ParseFrame(frame)
             IN  IF frame = <<>> \/ f.dataRaw = <<>>
                    THEN DrainFrames(surface, rest, txt)
                 ELSE DrainFrames(surface, rest,
                                  Dispatch(surface, f.ev, f.dataRaw, txt))

\* (faulty variant of AddChunk: the buffer is overwritten by the new chunk)
AddChunkOverwrite(buffer, chunk) == chunk

\* buffer += decoder.decode(value)
AddChunk(buffer, chunk) == buffer \o chunk

\* One iteration of the outer while loop on a chunk.
OnChunk(surface, buffer, chunk, txt) ==
    DrainFrames(surface, AddChunk(buffer, chunk), txt)


(***************************************************************************)
(* The response framing of the chat endpoint: each frame is an optional    *)
(* "event:" line, a "data:" line and a blank line.                         *)
(***************************************************************************)
DeltaFrame(c) == [ev |-> "delta", data |-> <<"{", "content", c, "}">>]
SentinelFrame == [ev |-> "message", data |-> <<"[DONE]">>]

Contents == {"Hi", " there", ""}
FrameSet == {DeltaFrame(c) : c \in Contents} \cup {SentinelFrame}

Encode(f) ==
    (IF f.ev = "message" THEN <<>> ELSE <<"event:", f.ev, NL>>)
        \o <<"data:">> \o f.data \o <<NL, NL>>

EncodeAll(frames) == Flatten([i \in DOMAIN frames |-> Encode(frames[i])])

Bodies == {"", "body"}      \* res.text() of a non-stream response
Messages == {"msg"}         \* the message argument of a stream start

(***************************************************************************)
(* Requests.  pc is the position of the fetch(...).then(...).catch(...)    *)
(* chain: "sending" (fetch pending), "text_http" / "text_plain" (awaiting  *)
(* res.text() on the !res.ok / non-stream path), "reading" (awaiting       *)
(* reader.read()), and the final positions "completed", "failed" (the      *)
(* catch handler ran on a transport error) and "cancelled" (it ran on the  *)
(* abort).  aborted is controller.signal.aborted; path records the branch  *)
(* the then-handler took ("http", "plain", "stream").  The locals          *)
(* buffer and wire (the body not yet delivered) are dropped when the chain *)
(* ends.                                                                   *)
(***************************************************************************)
InFlight == {"sending", "text_http", "text_plain", "reading"}

NewRequest(surface, bubble) ==
    [surface |-> surface, pc |-> "sending", aborted |-> FALSE,
     bubble |-> bubble, path |-> "none", buffer |-> <<>>, wire |-> <<>>]

\* (faulty variant of Abort: the previous controller is dropped without abort())
AbortSkipped(rs, id) == rs

\* if (controller) controller.abort()
Abort(rs, id) ==
    IF id = 0 THEN rs ELSE [rs EXCEPT ![id].aborted = TRUE]

\* (faulty variant of PendingReject: an abort after the chain has ended
\* rejects it again)
PendingRejectAnyTime(r) == reqs[r].aborted

\* An abort rejects the pending promise of the request; its reaction runs
\* as a microtask, before any other task of the event loop.
PendingReject(r) == reqs[r].aborted /\ reqs[r].pc \in InFlight
NoMicrotask == \A r \in DOMAIN reqs : ~PendingReject(r)

\* appendChat / appendInline: a new bubble with the given text
NewBubbles(msg) == text \o <<<<msg>>, <<>>>>

noPure == UNCHANGED <<script, rf, ps, nm, ui, ex>>

\* streamChat(message, clientMeta) as called by a handler: its effect on
\* the chat state; cap bounds the streams of a behaviour
streamChat(msg, cap) ==
    /\ NoMicrotask
    /\ Len(reqs) < cap
    /\ LET id == Len(reqs) + 1
           u == Len(text) + 1
           a == Len(text) + 2
       IN  /\ panelOpen' = TRUE                              \* ensureChatPanel
           /\ reqs' = Append(Abort(reqs, chatAbortController),
                             NewRequest("panel", a))
           /\ chatAbortController' = id
           /\ text' = NewBubbles(msg)
           /\ panelMsgs' = (IF panelOpen THEN panelMsgs ELSE <<>>) \o <<u, a>>
    /\ UNCHANGED <<inlineMsgs, inlineAbort>>

StreamChat(msg, cap) == streamChat(msg, cap) /\ noPure

\* streamInlineChat(message, clientMeta) run by a handler that has already
\* appended the bubbles that take txt0 and msgs0 beyond text and inlineMsgs
streamInlineChatFrom(txt0, msgs0, msg, cap) ==
    /\ NoMicrotask
    /\ Len(reqs) < cap
    /\ LET id == Len(reqs) + 1
           u == Len(txt0) + 1
           a == Len(txt0) + 2
       IN  /\ reqs' = Append(Abort(reqs, inlineAbort), NewRequest("inline", a))
           /\ inlineAbort' = id
           /\ text' = txt0 \o <<<<msg>>, <<>>>>
           /\ inlineMsgs' = msgs0 \o <<u, a>>
    /\ UNCHANGED <<panelOpen, panelMsgs, chatAbortController>>

\* streamInlineChat(message, clientMeta) as called by a handler
streamInlineChat(msg, cap) ==
    streamInlineChatFrom(text, inlineMsgs, msg, cap)

StreamInlineChat(msg, cap) == streamInlineChat(msg, cap) /\ noPure

\* closeChatPanel(): the close button of the panel
closeChatPanel ==
    /\ NoMicrotask
    /\ panelOpen
    /\ reqs' = Abort(reqs, chatAbortController)
    /\ chatAbortController' = 0
    /\ panelOpen' = FALSE                                    \* panel.remove()
    /\ panelMsgs' = <<>>
    /\ UNCHANGED <<text, inlineMsgs, inlineAbort>>
    /\ noPure

\* The reaction to an abort: a pending fetch or read rejects and the catch
\* handler appends its annotation; a pending res.text() rejects into ''.
\* (OnAbortTextAssigned is the faulty variant whose handler assigns the
\* annotation instead of appending it.)
OnAbortTextAssigned(pc, txt) ==
    CASE pc = "text_http"  -> <<"HTTP status">>
      [] pc = "text_plain" -> <<"[No stream body]">>
      [] OTHER             -> <<"[Network error]">>

OnAbortText(pc, txt) ==
    CASE pc = "text_http"  -> <<"HTTP status">>
      [] pc = "text_plain" -> <<"[No stream body]">>
      [] OTHER             -> txt \o <<"[Network error]">>

AbortObserved(r) ==
    /\ PendingReject(r)
    /\ text' = [text EXCEPT ![reqs[r].bubble] = OnAbortText(reqs[r].pc, @)]
    /\ reqs' = [reqs EXCEPT ![r].pc =
                      IF @ \in {"text_http", "text_plain"} THEN "completed"
                      ELSE "cancelled",
                   ![r].buffer = <<>>, ![r].wire = <<>>]
    /\ UNCHANGED <<panelOpen, panelMsgs, inlineMsgs, chatAbortController,
                   inlineAbort>>
    /\ noPure

\* fetch resolves: the three branches at the head of the then-handler
ResponseArrives(r) ==
    /\ NoMicrotask
    /\ reqs[r].pc = "sending"
    /\ \/ reqs' = [reqs EXCEPT ![r].pc = "text_http",        \* !res.ok
                                ![r].path = "http"]
       \/ reqs' = [reqs EXCEPT ![r].pc = "text_plain",       \* not a stream
                                ![r].path = "plain"]
       \/ reqs' = [reqs EXCEPT ![r].pc = "reading",          \* a stream
                                ![r].path = "stream",
                                ![r].wire = EncodeAll(script)]
    /\ UNCHANGED <<text, panelOpen, panelMsgs, inlineMsgs,
                   chatAbortController, inlineAbort>>
    /\ noPure

\* (faulty variant of BodyText: the body becomes the text as it is)
BodyTextVerbatim(r) ==
    /\ NoMicrotask
    /\ reqs[r].pc \in {"text_http", "text_plain"}
    /\ \E txt \in Bodies :
          text' = [text EXCEPT ![reqs[r].bubble] =
                      IF txt = "" THEN <<>> ELSE <<txt>>]
    /\ reqs' = [reqs EXCEPT ![r].pc = "completed"]
    /\ UNCHANGED <<panelOpen, panelMsgs, inlineMsgs, chatAbortController,
                   inlineAbort>>
    /\ noPure

\* res.text() settles on a non-stream response
BodyText(r) ==
    /\ NoMicrotask
    /\ reqs[r].pc \in {"text_http", "text_plain"}
    /\ \E txt \in Bodies :
          text' = [text EXCEPT ![reqs[r].bubble] =
                      IF reqs[r].pc = "text_http"
                      THEN <<"HTTP status">> \o (IF txt = "" THEN <<>> ELSE <<txt>>)
                      ELSE IF txt = "" THEN <<"[No stream body]">> ELSE <<txt>>]
    /\ reqs' = [reqs EXCEPT ![r].pc = "completed"]
    /\ UNCHANGED <<panelOpen, panelMsgs, inlineMsgs, chatAbortController,
                   inlineAbort>>
    /\ noPure

\* reader.read() resolves with a chunk of n symbols
ReadChunk(r) ==
    /\ NoMicrotask
    /\ reqs[r].pc = "reading"
    /\ reqs[r].wire # <<>>
    /\ \E n \in 1..MaxChunk :
          /\ n <= Len(reqs[r].wire)
          /\ LET w == reqs[r].wire
                 got == OnChunk(reqs[r].surface, reqs[r].buffer,
                                SubSeq(w, 1, n), text[reqs[r].bubble])
             IN  /\ reqs' = [reqs EXCEPT ![r].buffer = got.buffer,
                                         ![r].wire = SubSeq(w, n + 1, Len(w))]
                 /\ text' = [text EXCEPT ![reqs[r].bubble] = got.text]
    /\ UNCHANGED <<panelOpen, panelMsgs, inlineMsgs, chatAbortController,
                   inlineAbort>>
    /\ noPure

\* reader.read() resolves with done: true
ReadDone(r) ==
    /\ NoMicrotask
    /\ reqs[r].pc = "reading"
    /\ reqs[r].wire = <<>>
    /\ LET got == OnChunk(reqs[r].surface, reqs[r].buffer, <<>>,
                          text[reqs[r].bubble])
       IN  /\ reqs' = [reqs EXCEPT ![r].buffer = <<>>,
                                   ![r].pc = "completed"]
           /\ text' = [text EXCEPT ![reqs[r].bubble] = got.text]
    /\ UNCHANGED <<panelOpen, panelMsgs, inlineMsgs, chatAbortController,
                   inlineAbort>>
    /\ noPure

\* fetch or reader.read() rejects on a transport error: the catch handler
NetworkFail(r) ==
    /\ NoMicrotask
    /\ reqs[r].pc \in {"sending", "reading"}
    /\ text' = [text EXCEPT ![reqs[r].bubble] = @ \o <<"[Network error]">>]
    /\ reqs' = [reqs EXCEPT ![r].pc = "failed",
                            ![r].buffer = <<>>, ![r].wire = <<>>]
    /\ UNCHANGED <<panelOpen, panelMsgs, inlineMsgs, chatAbortController,
                   inlineAbort>>
    /\ noPure

NoRefine == [phase |-> "off"]
NoParse == [phase |-> "off"]
NoNorm == [phase |-> "off"]
NoSession == [phase |-> "off"]
NoExplain == [phase |-> "off"]

ChatIdle ==
    /\ reqs = <<>>
    /\ text = <<>>
    /\ panelOpen = FALSE
    /\ panelMsgs = <<>>
    /\ inlineMsgs = <<>>
    /\ chatAbortController = 0
    /\ inlineAbort = 0

\* Spec: up to MaxReqs streams on the two surfaces, every response a stream
\* of two delta frames (or a non-stream body, or a transport error).
ChatScript == <<DeltaFrame("Hi"), DeltaFrame(" there")>>

Init ==
    /\ ChatIdle
    /\ script = ChatScript
    /\ rf = NoRefine
    /\ ps = NoParse
    /\ nm = NoNorm
    /\ ui = NoSession
    /\ ex = NoExplain

Next ==
    \/ \E m \in Messages : StreamChat(m, MaxReqs)
    \/ \E m \in Messages : StreamInlineChat(m, MaxReqs)
    \/ closeChatPanel
    \/ \E r \in DOMAIN reqs : AbortObserved(r)
    \/ \E r \in DOMAIN reqs : ResponseArrives(r)
    \/ \E r \in DOMAIN reqs : BodyText(r)
    \/ \E r \in DOMAIN reqs : ReadChunk(r)
    \/ \E r \in DOMAIN reqs : ReadDone(r)
    \/ \E r \in DOMAIN reqs : NetworkFail(r)

Spec == Init /\ [][Next]_vars

\* SpecStream: one stream, on either surface, answered with any script of
\* up to MaxFrames frames and delivered in any chunks.
InitStream ==
    /\ ChatIdle
    /\ script \in SeqsUpTo(FrameSet, MaxFrames)
    /\ rf = NoRefine
    /\ ps = NoParse
    /\ nm = NoNorm
    /\ ui = NoSession
    /\ ex = NoExplain

NextStream ==
    \/ \E m \in Messages : StreamChat(m, 1)
    \/ \E m \in Messages : StreamInlineChat(m, 1)
    \/ closeChatPanel
    \/ \E r \in DOMAIN reqs : AbortObserved(r)
    \/ \E r \in DOMAIN reqs : ResponseArrives(r)
    \/ \E r \in DOMAIN reqs : BodyText(r)
    \/ \E r \in DOMAIN reqs : ReadChunk(r)
    \/ \E r \in DOMAIN reqs : ReadDone(r)
    \/ \E r \in DOMAIN reqs : NetworkFail(r)

SpecStream == InitStream /\ [][NextStream]_vars



(***************************************************************************)
(* Claims about the chat surfaces.                                         *)
(***************************************************************************)
Surfaces == {"panel", "inline"}
OnSurface(s) == {r \in DOMAIN reqs : reqs[r].surface = s}
Live(s) == {r \in OnSurface(s) : ~reqs[r].aborted}
Controller(s) == IF s = "panel" THEN chatAbortController ELSE inlineAbort
Newest(s) == CHOOSE r \in OnSurface(s) : \A q \in OnSurface(s) : q <= r

\* C1: on each surface every request but the newest has been aborted, so at
\* most one stream is un-aborted; while the surface holds a controller (always
\* on the inline surface, and on the panel until it is closed) exactly one
\* is, and it is the newest request, the one the controller belongs to.
C1_OneActiveStream ==
    \A s \in Surfaces :
        OnSurface(s) # {} =>
            /\ Live(s) \subseteq {Newest(s)}
            /\ Controller(s) \in {0, Newest(s)}
            /\ Controller(s) # 0 => Live(s) = {Newest(s)}
            /\ s = "inline" => Controller(s) # 0

\* A second stream was started on a surface while the first was in flight:
\* the first was aborted and ended cancelled, the second is un-aborted.
C1_Witness ==
    \E s \in Surfaces : \E r1, r2 \in OnSurface(s) :
        /\ r1 < r2
        /\ reqs[r1].aborted /\ reqs[r1].pc = "cancelled"
        /\ ~reqs[r2].aborted /\ reqs[r2].pc \in InFlight

\* C2: once a request's signal is aborted, the text of its assistant bubble
\* is the same in every later state.
C2_NoTextAfterCancel ==
    [][\A r \in DOMAIN reqs :
          reqs[r].aborted => text'[reqs[r].bubble] = text[reqs[r].bubble]]_vars

\* A step that cancels an in-flight stream, and what the transcripts keep.
CancelStep ==
    \E r \in DOMAIN reqs :
        reqs[r].pc \in InFlight /\ ~reqs[r].aborted /\ reqs'[r].aborted
TextKept == \A b \in DOMAIN text : IsPrefix(text[b], text'[b])
TranscriptsKept ==
    IsPrefix(panelMsgs, panelMsgs') /\ IsPrefix(inlineMsgs, inlineMsgs')

\* C3 as stated: every step that cancels an in-flight stream (a new message
\* or closing the panel) keeps every transcript entry and its text.
C3_CancelKeepsTranscript ==
    [][CancelStep => (TranscriptsKept /\ TextKept)]_vars

\* C3 as amended: no step shortens the text of a bubble, and every step
\* except the removal of the panel keeps the entries of both transcripts, in
\* order; the removal of the panel discards the panel's transcript.
C3_OnlyCloseDropsTranscript ==
    [][/\ TextKept
       /\ IsPrefix(inlineMsgs, inlineMsgs')
       /\ IF panelOpen /\ ~panelOpen' THEN panelMsgs' = <<>>
          ELSE IsPrefix(panelMsgs, panelMsgs')]_vars

\* A panel stream that had appended "Hi" was cancelled by a newer message;
\* its bubble, with the text and the annotation, is still in the transcript.
C3_Witness ==
    \E r \in OnSurface("panel") :
        /\ reqs[r].pc = "cancelled"
        /\ chatAbortController \notin {0, r}
        /\ text[reqs[r].bubble] = <<"Hi", "[Network error]">>
        /\ \E i \in DOMAIN panelMsgs : panelMsgs[i] = reqs[r].bubble

\* The content values of a script of delta frames, and their concatenation
\* (an empty value is the empty string: it adds no atom).
IsDelta(f) ==
    /\ f.ev = "delta"
    /\ Len(f.data) = 4
    /\ f.data[1] = "{" /\ f.data[2] = "content" /\ f.data[4] = "}"
ContentOf(f) == f.data[3]
Concat(frames) ==
    SelectSeq([i \in DOMAIN frames |-> ContentOf(frames[i])], LAMBDA c : c # "")

\* C4: when the body is a sequence of delta frames with content values
\* c1..cn, the assistant text of a stream that has ended is c1 ... cn, in
\* order and each once, however the body was split into chunks.
C4_DeltaFramesInOrder ==
    \A r \in DOMAIN reqs :
        (/\ reqs[r].pc = "completed"
         /\ reqs[r].path = "stream"
         /\ \A i \in DOMAIN script : IsDelta(script[i]))
            => text[reqs[r].bubble] = Concat(script)

\* The frames "Hi" and " there" were read to the end: the text is "Hi there".
C4_Witness ==
    \E r \in DOMAIN reqs :
        /\ reqs[r].pc = "completed"
        /\ reqs[r].path = "stream"
        /\ script = <<DeltaFrame("Hi"), DeltaFrame(" there")>>
        /\ text[reqs[r].bubble] = <<"Hi", " there">>


(***************************************************************************)
(* refinePlacesWithConstraints.                                            *)
(*                                                                         *)
(* A place or a constraint is a function from the names of the fields it   *)
(* has (a field that is null or undefined is not in the domain).  rating   *)
(* is held in tenths (45 is 4.5), so rating * 10 is the field itself.  The *)
(* coordinates of a place are held as "geo", the metres haversineMeters    *)
(* returns for them from the user's location; price is the string of       *)
(* currency symbols.  Penalties are held in hundredths and the score is    *)
(* computed exactly, as a fraction n / d.                                  *)
(***************************************************************************)
MaxPlaces == 3    \* places in the list handed to the re-ranker

Has(o, k) == k \in DOMAIN o
With(o, k, v) == [x \in DOMAIN o \cup {k} |-> IF x = k THEN v ELSE o[x]]

\* The value of 0 / 0: not a number.
NaN == -1
IsNaN(x) == x = NaN

UnknownDistancePenalty == 25     \* 0.25
OverPricePenalty == 50           \* 0.5
UnknownPricePenalty == 15        \* 0.15
PenaltyWeight == 20              \* base - penalty * 20
UsdPerPriceLevel == 10           \* approxCap = price_level * 10
ReviewCap == 200                 \* Math.min(review_count, 200)

\* ensureDerivedFields(place)
ensureDerivedFields(place) ==
    LET p1 == IF ~Has(place, "distance_m") /\ ~Has(place, "distance")
                 /\ Has(place, "geo")
              THEN With(place, "distance_m", place.geo) ELSE place
    IN  IF ~Has(p1, "price_level") /\ Has(p1, "price") /\ Len(p1.price) > 0
        THEN With(p1, "price_level", Len(p1.price)) ELSE p1

\* over = Math.max(0, p.distance_m - constraints.max_distance_m)
Over(d, m) == IF d - m > 0 THEN d - m ELSE 0

\* (faulty variant of FlatPenalty: the tier rule is applied also when a USD
\* ceiling is present)
FlatPenaltyBothRules(p, c) ==
    (IF Has(c, "max_distance_m") /\ ~Has(p, "distance_m")
        THEN UnknownDistancePenalty ELSE 0)
    + (IF Has(c, "max_price_usd")
          THEN IF Has(p, "price_level")
                  THEN IF p.price_level * UsdPerPriceLevel > c.max_price_usd
                          THEN OverPricePenalty ELSE 0
               ELSE UnknownPricePenalty
       ELSE 0)
    + (IF Has(c, "max_price_level")
          THEN IF Has(p, "price_level") /\ p.price_level > c.max_price_level
                  THEN OverPricePenalty
               ELSE IF ~Has(p, "price_level") THEN UnknownPricePenalty
               ELSE 0
       ELSE 0)

\* The penalty terms that are not the overage ratio, in hundredths.
FlatPenalty(p, c) ==
    (IF Has(c, "max_distance_m") /\ ~Has(p, "distance_m")
        THEN UnknownDistancePenalty ELSE 0)
    + (IF Has(c, "max_price_usd")
          THEN IF Has(p, "price_level")
                  THEN IF p.price_level * UsdPerPriceLevel > c.max_price_usd
                          THEN OverPricePenalty ELSE 0
               ELSE UnknownPricePenalty
       ELSE IF Has(c, "max_price_level")
          THEN IF Has(p, "price_level") /\ p.price_level > c.max_price_level
                  THEN OverPricePenalty
               ELSE IF ~Has(p, "price_level") THEN UnknownPricePenalty
               ELSE 0
       ELSE 0)

\* base, times 20: match_score || rating * 10 + min(review_count, 200) / 20
Base20(p) ==
    IF Has(p, "match_score") /\ p.match_score # 0 THEN 20 * p.match_score
    ELSE (IF Has(p, "rating") THEN 20 * p.rating ELSE 0)
         + (IF Has(p, "review_count")
               THEN IF p.review_count < ReviewCap THEN p.review_count
                    ELSE ReviewCap
            ELSE 0)

\* Math.round(n / d) for d > 0: halves round up.
Round(n, d) == (2 * n + d) \div (2 * d)

Max0(x) == IF x > 0 THEN x ELSE 0

\* refined_score = Math.max(0, Math.round(base - penalty * 20)); a limit of
\* 0 metres makes the overage ratio over / 0: Infinity (score 0) when the
\* place is further than 0 metres, NaN when it is at 0 metres.
RefinedScore(p, c) ==
    LET flat == FlatPenalty(p, c)
        b == Base20(p)
        w == PenaltyWeight
    IN  IF Has(c, "max_distance_m") /\ Has(p, "distance_m")
        THEN LET m == c.max_distance_m
                 over == Over(p.distance_m, m)
             IN  IF m = 0 THEN (IF over = 0 THEN NaN ELSE 0)
                 ELSE Max0(Round(5 * b * m - 100 * w * over - w * flat * m,
                                 100 * m))
        ELSE Max0(Round(5 * b - w * flat, 100))

\* One element of the two map() calls.
Scored(p, c) ==
    LET q == ensureDerivedFields(p)
    IN  With(q, "refined_score", RefinedScore(q, c))

\* The comparator (a, b) => b.refined_score - a.refined_score, on numbers.
Compare(a, b) == b.refined_score - a.refined_score

\* Array.prototype.sort under a consistent comparator is a stable sort; here
\* an insertion sort: x moves left past every element the comparator orders
\* after it.
RECURSIVE InsertSorted(_, _)
InsertSorted(s, x) ==
    IF s = <<>> THEN <<x>>
    ELSE LET last == s[Len(s)]
         IN  IF Compare(last, x) > 0
                THEN Append(InsertSorted(SubSeq(s, 1, Len(s) - 1), x), last)
             ELSE Append(s, x)

RECURSIVE SortByScore(_)
SortByScore(list) ==
    IF list = <<>> THEN <<>>
    ELSE InsertSorted(SortByScore(SubSeq(list, 1, Len(list) - 1)),
                      list[Len(list)])

\* The comparator yields NaN against a place whose refined_score is NaN, so
\* it is not a consistent comparator and the order sort leaves is
\* implementation-defined: any permutation of the list.
Reorderings(list) ==
    {[i \in DOMAIN list |-> list[f[i]]] :
        f \in {g \in [DOMAIN list -> DOMAIN list] :
                  \A i, j \in DOMAIN list : g[i] = g[j] => i = j}}

SortOutcomes(list) ==
    IF \E i \in DOMAIN list : IsNaN(list[i].refined_score)
    THEN Reorderings(list)
    ELSE {SortByScore(list)}

ScoredList(placesArr, constraints) ==
    [i \in DOMAIN placesArr |-> Scored(placesArr[i], constraints)]

\* (faulty variant of refinePlacesWithConstraints: places that score 0 are filtered
\* out before sorting)
refineHardFilter(placesArr, constraints) ==
    SortOutcomes(SelectSeq(ScoredList(placesArr, constraints),
                           LAMBDA p : p.refined_score # 0))

\* refinePlacesWithConstraints(placesArr, constraints): the lists it may
\* return
refinePlacesWithConstraints(placesArr, constraints) ==
    SortOutcomes(ScoredList(placesArr, constraints))

(***************************************************************************)
(* SpecRefine: the inputs of the re-ranker.                                *)
(***************************************************************************)
Dollars(n) == [i \in 1..n |-> "$"]

PlaceBodies ==
    { ("rating" :> 45 @@ "review_count" :> 10 @@ "distance_m" :> 0
          @@ "price_level" :> 2),
      ("match_score" :> 30 @@ "distance_m" :> 1200 @@ "price_level" :> 1),
      ("rating" :> 30 @@ "geo" :> 400 @@ "price" :> Dollars(3)),
      ("rating" :> 45 @@ "distance" :> 900),
      ("match_score" :> 0 @@ "rating" :> 50 @@ "review_count" :> 250
          @@ "distance_m" :> 1200 @@ "price_level" :> 4) }

\* Lists of up to MaxPlaces places; place_id is the position in the list.
PlaceLists ==
    UNION {{[i \in 1..n |-> With(bs[i], "place_id", i)] :
              bs \in [1..n -> PlaceBodies]} : n \in 0..MaxPlaces}

WalkMetresPerMinute == 83
DriveMetresPerMinute == 800

MaxDistances ==
    {0, 5 * WalkMetresPerMinute, DriveMetresPerMinute, 2 * DriveMetresPerMinute}
ModeOf(m) == IF m = 5 * WalkMetresPerMinute THEN "walk" ELSE "drive"

DistanceParts ==
    {<<>>} \cup {("max_distance_m" :> m @@ "distance_mode" :> ModeOf(m)) :
                    m \in MaxDistances}
PriceParts ==
    { <<>>,
      ("max_price_usd" :> 10 @@ "max_price_level" :> 1),
      ("max_price_usd" :> 25),
      ("max_price_level" :> 2) }
ConstraintSet == {d @@ p : d \in DistanceParts, p \in PriceParts}

InitRefine ==
    /\ ChatIdle
    /\ script = <<>>
    /\ ps = NoParse
    /\ nm = NoNorm
    /\ ui = NoSession
    /\ ex = NoExplain
    /\ \E pl \in PlaceLists, c \in ConstraintSet :
          rf = [phase |-> "input", places |-> pl, c |-> c, out |-> <<>>,
                c2 |-> c, out2 |-> <<>>, left |-> pl]

\* (faulty variant of CallerPlacesAfter: ensureDerivedFields is given the
\* caller's object itself)
CallerPlacesAfterShared(placesArr) ==
    [i \in DOMAIN placesArr |-> ensureDerivedFields(placesArr[i])]

\* The caller's array after refinePlacesWithConstraints(placesArr, ...):
\* [...placesArr] is a new array and { ...p } a new object, so map, sort
\* and the assignments of ensureDerivedFields write to the copies.
CallerPlacesAfter(placesArr) == placesArr

\* refined = refinePlacesWithConstraints(places, constraints); left is the
\* array given to the call, as the call leaves it
Refine ==
    /\ rf.phase = "input"
    /\ \E out \in refinePlacesWithConstraints(rf.places, rf.c) :
          rf' = [rf EXCEPT !.phase = "refined", !.out = out,
                           !.left = CallerPlacesAfter(rf.places)]
    /\ UNCHANGED <<reqs, text, panelOpen, panelMsgs, inlineMsgs,
                   chatAbortController, inlineAbort, script, ps, nm, ui, ex>>

\* The same places refined again under a constraint that differs only in a
\* larger (or equal) max_distance_m.
Loosen(m2) ==
    /\ rf.phase = "refined"
    /\ Has(rf.c, "max_distance_m")
    /\ rf.c.max_distance_m <= m2
    /\ LET c2 == With(rf.c, "max_distance_m", m2)
       IN  \E out2 \in refinePlacesWithConstraints(rf.places, c2) :
              rf' = [rf EXCEPT !.phase = "loosened", !.c2 = c2, !.out2 = out2]
    /\ UNCHANGED <<reqs, text, panelOpen, panelMsgs, inlineMsgs,
                   chatAbortController, inlineAbort, script, ps, nm, ui, ex>>

\* The refined list refined again under the same constraint.
RefineAgain ==
    /\ rf.phase = "refined"
    /\ \E out2 \in refinePlacesWithConstraints(rf.out, rf.c) :
          rf' = [rf EXCEPT !.phase = "again", !.out2 = out2,
                           !.left = CallerPlacesAfter(rf.out)]
    /\ UNCHANGED <<reqs, text, panelOpen, panelMsgs, inlineMsgs,
                   chatAbortController, inlineAbort, script, ps, nm, ui, ex>>

NextRefine ==
    \/ Refine
    \/ \E m2 \in MaxDistances : Loosen(m2)
    \/ RefineAgain

SpecRefine == InitRefine /\ [][NextRefine]_vars

(***************************************************************************)
(* Claims about the re-ranker.                                             *)
(***************************************************************************)
Refined == rf.phase \in {"refined", "loosened"}

\* The entries of a refined list that came from input place i.
From(out, i) == {j \in DOMAIN out : out[j].place_id = i}
ScoreOf(out, i) == out[CHOOSE j \in From(out, i) : TRUE].refined_score

\* a < b on JavaScript numbers (false when either is NaN)
ScoreLess(a, b) == ~IsNaN(a) /\ ~IsNaN(b) /\ a < b

\* C5: the refined list has the length of the input list and holds every
\* input place exactly once, with every field the input place had.
C5_NoPlaceDroppedOrAdded ==
    Refined =>
        /\ Len(rf.out) = Len(rf.places)
        /\ \A i \in DOMAIN rf.places :
              /\ Cardinality(From(rf.out, i)) = 1
              /\ \A j \in From(rf.out, i) : \A k \in DOMAIN rf.places[i] :
                    Has(rf.out[j], k) /\ rf.out[j][k] = rf.places[i][k]

\* A list of two or more places was refined under a distance and a price
\* constraint, one place having neither a distance nor a price level, one
\* scoring 0.
C5_Witness ==
    /\ rf.phase = "refined"
    /\ Len(rf.places) >= 2
    /\ Has(rf.c, "max_distance_m") /\ Has(rf.c, "max_price_usd")
    /\ \E j \in DOMAIN rf.out :
          ~Has(rf.out[j], "distance_m") /\ ~Has(rf.out[j], "price_level")
    /\ \E j \in DOMAIN rf.out : rf.out[j].refined_score = 0

\* The price penalty C20 states for a place under a constraint, in
\* hundredths: the USD rule when a USD ceiling is present, else the tier
\* rule when a tier ceiling is present, else none.
StatedPricePenalty(p, c) ==
    IF Has(c, "max_price_usd")
    THEN IF ~Has(p, "price_level") THEN UnknownPricePenalty
         ELSE IF p.price_level * UsdPerPriceLevel > c.max_price_usd
              THEN OverPricePenalty
         ELSE 0
    ELSE IF Has(c, "max_price_level")
    THEN IF ~Has(p, "price_level") THEN UnknownPricePenalty
         ELSE IF p.price_level > c.max_price_level THEN OverPricePenalty
         ELSE 0
    ELSE 0

\* The constraint without its price fields
NoPrice(c) == [k \in DOMAIN c \ {"max_price_usd", "max_price_level"} |-> c[k]]

\* C20: the refined score of every place is its refined score under the
\* same constraint without price fields, less 20 times the one price
\* penalty stated (and not below 0): the USD rule alone when a USD ceiling
\* is present, the tier rule only when none is, and nothing for a place
\* whose price is within the limit.
C20_OnePricePenalty ==
    Refined =>
        \A i \in DOMAIN rf.places :
            LET q == ensureDerivedFields(rf.places[i])
                plain == RefinedScore(q, NoPrice(rf.c))
                term == (PenaltyWeight * StatedPricePenalty(q, rf.c)) \div 100
            IN  ScoreOf(rf.out, i) =
                    IF IsNaN(plain) THEN plain ELSE Max0(plain - term)

\* Places were refined under a USD ceiling of 10 and a tier ceiling of 1: a
\* place of tier 2 got the one penalty of the USD rule, a place of tier 1
\* none, a place of no known tier the penalty for an unknown price.
C20_Witness ==
    /\ rf.phase = "refined"
    /\ Has(rf.c, "max_price_usd") /\ Has(rf.c, "max_price_level")
    /\ \E i, j, k \in DOMAIN rf.places :
          LET a == ensureDerivedFields(rf.places[i])
              b == ensureDerivedFields(rf.places[j])
              u == ensureDerivedFields(rf.places[k])
          IN  /\ Has(a, "price_level") /\ a.price_level = 2
              /\ ScoreOf(rf.out, i) = RefinedScore(a, NoPrice(rf.c)) - 10
              /\ Has(b, "price_level") /\ b.price_level = 1
              /\ ScoreOf(rf.out, j) = RefinedScore(b, NoPrice(rf.c))
              /\ ~IsNaN(ScoreOf(rf.out, j)) /\ ScoreOf(rf.out, j) > 0
              /\ ~Has(u, "price_level")
              /\ ScoreOf(rf.out, k) = RefinedScore(u, NoPrice(rf.c)) - 3

\* a >= b on JavaScript numbers (false when either is NaN)
ScoreAtLeast(a, b) == ~IsNaN(a) /\ ~IsNaN(b) /\ a >= b

\* C6: for two constraints that differ only in max_distance_m, m1 <= m2,
\* the refined score of every place under m2 is at least its refined score
\* under m1.
C6_LooseningAtLeast ==
    rf.phase = "loosened" =>
        \A i \in DOMAIN rf.places :
            ScoreAtLeast(ScoreOf(rf.out2, i), ScoreOf(rf.out, i))

\* What is left of C6 when a score that is not a number compares with
\* nothing: no place scores less under m2 than under m1.
LooseningNeverLowersNumbers ==
    rf.phase = "loosened" =>
        \A i \in DOMAIN rf.places :
            ~ScoreLess(ScoreOf(rf.out2, i), ScoreOf(rf.out, i))

\* C6 witness: a place beyond the tighter limit scored strictly more under
\* the looser.
C6_Witness ==
    /\ rf.phase = "loosened"
    /\ rf.c.max_distance_m < rf.c2.max_distance_m
    /\ \E i \in DOMAIN rf.places :
          /\ Has(rf.places[i], "distance_m")
          /\ rf.places[i].distance_m > rf.c.max_distance_m
          /\ ScoreLess(ScoreOf(rf.out, i), ScoreOf(rf.out2, i))

\* C7: in the refined list no place stands before a place of higher refined
\* score, and places of equal refined score stand in their input order.
C7_SortedDescendingStable ==
    Refined =>
        \A j, k \in DOMAIN rf.out :
            j < k =>
                /\ ~ScoreLess(rf.out[j].refined_score, rf.out[k].refined_score)
                /\ rf.out[j].refined_score = rf.out[k].refined_score
                      => rf.out[j].place_id < rf.out[k].place_id

(***************************************************************************)
(* parseConstraints.                                                       *)
(*                                                                         *)
(* An utterance is a sequence of tokens, each a maximal run of characters  *)
(* of one kind: a word, a run of digits, a run of currency symbols.        *)
(* Whitespace between tokens is not held: every place where the three      *)
(* regular expressions pass from one token to the next allows \s*, except  *)
(* inside a run of currency symbols, which is one token.                   *)
(***************************************************************************)
MaxTokens == 4    \* tokens in an utterance

Tokens ==
    {"within", "under", "Under", "less than", "10", "minutes", "walk",
     "drive", "$", "$$", "hello"}

\* text.toLowerCase(), token by token
LowerOf(t) == IF t = "Under" THEN "under" ELSE t
toLowerCase(u) == [i \in DOMAIN u |-> LowerOf(u[i])]

\* \d+ and parseInt / parseFloat of the digits
IsNumber(t) == t \in {"0", "5", "10"}
NumberOf(t) == CASE t = "0" -> 0 [] t = "5" -> 5 [] t = "10" -> 10

IsMinuteWord(t) == t \in {"min", "mins", "minute", "minutes"}  \* min(?:ute)?s?
IsModeWord(t) == t \in {"drive", "driving", "walk", "walking"}
IsUnder(t) == t \in {"under", "less than"}                      \* (?:under|less than)
IsDollars(t) == t \in {"$", "$$", "$$$", "$$$$", "$$$$$"}

\* (faulty variant of MatchesDistanceAt: the unit after the number is not required)
MatchesDistanceNoUnit(t, i) == IsNumber(t[i])

\* /(?:within\s*)?(\d+)\s*min(?:ute)?s?\s*(drive|driving|walk|walking)?/
\* matches with (\d+) at token i.
MatchesDistanceAt(t, i) ==
    IsNumber(t[i]) /\ i < Len(t) /\ IsMinuteWord(t[i + 1])

\* /(?:under|less than)\s*\$?\s*(\d+)/ matches with the keyword at token i;
\* the value is the token of (\d+).
PriceNumAt(t, i) ==
    IF ~IsUnder(t[i]) THEN ""
    ELSE IF i + 1 <= Len(t) /\ IsNumber(t[i + 1]) THEN t[i + 1]
    ELSE IF i + 2 <= Len(t) /\ t[i + 1] = "$" /\ IsNumber(t[i + 2]) THEN t[i + 2]
    ELSE ""

\* /(?:under|less than)\s*(\${1,4})/ matches with the keyword at token i;
\* the value is the length of the capture.
PriceLevelAt(t, i) ==
    IF IsUnder(t[i]) /\ i + 1 <= Len(t) /\ IsDollars(t[i + 1])
    THEN (IF Len(t[i + 1]) < 4 THEN Len(t[i + 1]) ELSE 4)
    ELSE 0

\* String.prototype.match without the g flag: the leftmost match.  The
\* result is the index of the match, 0 for null.
RECURSIVE FirstDistance(_, _)
FirstDistance(t, i) ==
    IF i > Len(t) THEN 0
    ELSE IF MatchesDistanceAt(t, i) THEN i
    ELSE FirstDistance(t, i + 1)

RECURSIVE FirstPriceNum(_, _)
FirstPriceNum(t, i) ==
    IF i > Len(t) THEN 0
    ELSE IF PriceNumAt(t, i) # "" THEN i
    ELSE FirstPriceNum(t, i + 1)

RECURSIVE FirstPriceLevel(_, _)
FirstPriceLevel(t, i) ==
    IF i > Len(t) THEN 0
    ELSE IF PriceLevelAt(t, i) # 0 THEN i
    ELSE FirstPriceLevel(t, i + 1)

\* (distMatch[2] || 'drive').startsWith('walk') ? 'walk' : 'drive'
ModeAt(t, i) ==
    IF i + 2 <= Len(t) /\ IsModeWord(t[i + 2]) /\ t[i + 2] \in {"walk", "walking"}
    THEN "walk" ELSE "drive"

\* (faulty variant of MetresPerMinute: the two rates exchanged)
MetresPerMinuteSwapped(mode) ==
    IF mode = "walk" THEN DriveMetresPerMinute ELSE WalkMetresPerMinute

\* mPerMin = mode === 'walk' ? 83 : 800
MetresPerMinute(mode) ==
    IF mode = "walk" THEN WalkMetresPerMinute ELSE DriveMetresPerMinute

\* An input of parseConstraints: a text, or a missing value.
Missing == [given |-> FALSE, tokens |-> <<>>]
Text(u) == [given |-> TRUE, tokens |-> u]

\* parseConstraints(text)
parseConstraints(input) ==
    LET t == toLowerCase(IF input.given THEN input.tokens ELSE <<>>)
        d == FirstDistance(t, 1)
        n == FirstPriceNum(t, 1)
        l == FirstPriceLevel(t, 1)
        dist == IF d = 0 THEN <<>>
                ELSE ("max_distance_m" :>
                          NumberOf(t[d]) * MetresPerMinute(ModeAt(t, d))
                      @@ "distance_mode" :> ModeAt(t, d))
        usd == IF n = 0 THEN <<>>
               ELSE ("max_price_usd" :> NumberOf(PriceNumAt(t, n)))
        lvl == IF l = 0 THEN <<>>
               ELSE ("max_price_level" :> PriceLevelAt(t, l))
    IN  dist @@ usd @@ lvl

\* handleSend: hasConstraints = Object.keys(constraints).length > 0
hasConstraints(c) == DOMAIN c # {}

Utterances == SeqsUpTo(Tokens, MaxTokens)

InitParse ==
    /\ ChatIdle
    /\ script = <<>>
    /\ rf = NoRefine
    /\ nm = NoNorm
    /\ ui = NoSession
    /\ ex = NoExplain
    /\ \E in \in {Text(u) : u \in Utterances} \cup {Missing} :
          ps = [phase |-> "input", input |-> in, out |-> <<>>]

\* constraints = parseConstraints(text)
Parse ==
    /\ ps.phase = "input"
    /\ ps' = [ps EXCEPT !.phase = "parsed",
                        !.out = parseConstraints(ps.input)]
    /\ UNCHANGED <<reqs, text, panelOpen, panelMsgs, inlineMsgs,
                   chatAbortController, inlineAbort, script, rf, nm, ui, ex>>

NextParse == Parse

SpecParse == InitParse /\ [][NextParse]_vars

(***************************************************************************)
(* Claims about parseConstraints, stated over the parsed states of         *)
(* SpecParse.                                                              *)
(***************************************************************************)
Parsed == ps.phase = "parsed"
Said == toLowerCase(ps.input.tokens)
DistanceFields == {"max_distance_m", "distance_mode"}
PriceFields == {"max_price_usd", "max_price_level"}
Restrict(c, fields) == [f \in DOMAIN c \cap fields |-> c[f]]

\* the phrases as the specification words them
WithinPhraseAt(t, i) ==
    /\ t[i] = "within" /\ i + 2 <= Len(t)
    /\ IsNumber(t[i + 1]) /\ IsMinuteWord(t[i + 2])
AmountPhraseAt(t, i) ==
    /\ IsUnder(t[i]) /\ i + 2 <= Len(t)
    /\ t[i + 1] = "$" /\ IsNumber(t[i + 2])
TierPhraseAt(t, i) ==
    /\ IsUnder(t[i]) /\ i + 1 <= Len(t)
    /\ IsDollars(t[i + 1]) /\ ~AmountPhraseAt(t, i)
OnlyKeywordAt(t, i) == \A j \in DOMAIN t : IsUnder(t[j]) => j = i

\* the phrases without their optional parts
MinutesPhraseAt(t, i) ==
    IsNumber(t[i]) /\ i + 1 <= Len(t) /\ IsMinuteWord(t[i + 1])
BareAmountPhraseAt(t, i) ==
    IsUnder(t[i]) /\ i + 1 <= Len(t) /\ IsNumber(t[i + 1])

\* C8: an utterance whose one price phrase is a currency amount ("under
\* $10") parses to exactly the USD ceiling, with no tier ceiling; an
\* utterance whose one price phrase is one to four currency symbols ("less
\* than $$") parses to exactly the tier ceiling, the count of the symbols,
\* with no USD ceiling.
C8_PricePhraseSetsOneCeiling ==
    Parsed =>
        \A i \in DOMAIN Said :
            /\ AmountPhraseAt(Said, i) /\ OnlyKeywordAt(Said, i)
                  => Restrict(ps.out, PriceFields)
                        = ("max_price_usd" :> NumberOf(Said[i + 2]))
            /\ TierPhraseAt(Said, i) /\ OnlyKeywordAt(Said, i)
                  => Restrict(ps.out, PriceFields)
                        = ("max_price_level" :> Len(Said[i + 1]))

\* C9 as stated: a distance constraint is produced exactly for utterances
\* that contain "within N minute(s)".
C9_DistanceExactlyForWithin ==
    Parsed =>
        ("max_distance_m" \in DOMAIN ps.out
            <=> \E i \in DOMAIN Said : WithinPhraseAt(Said, i))

\* C9 amended: a distance constraint is produced exactly for utterances in
\* which a number is followed by min / mins / minute / minutes, with or
\* without a leading "within".  The first such phrase decides: the mode is
\* walk only when walk or walking follows it and drive otherwise, the limit
\* is N x 83 metres walking and N x 800 metres driving, and an utterance
\* without under / less than gets no price field.  "within 10 minutes
\* drive" parses to exactly {max_distance_m: 8000, distance_mode: drive}.
C9_DistanceForMinutesPhrase ==
    Parsed =>
        LET P == {i \in DOMAIN Said : MinutesPhraseAt(Said, i)}
            i == CHOOSE k \in P : \A j \in P : k <= j
            walks == i + 2 <= Len(Said) /\ Said[i + 2] \in {"walk", "walking"}
        IN  /\ IF P = {} THEN DOMAIN ps.out \cap DistanceFields = {}
               ELSE /\ DistanceFields \subseteq DOMAIN ps.out
                    /\ ps.out["distance_mode"] = IF walks THEN "walk" ELSE "drive"
                    /\ ps.out["max_distance_m"]
                          = NumberOf(Said[i]) * (IF walks THEN 83 ELSE 800)
            /\ (\A j \in DOMAIN Said : ~IsUnder(Said[j]))
                  => DOMAIN ps.out \cap PriceFields = {}
            /\ ps.input = Text(<<"within", "10", "minutes", "drive">>)
                  => ps.out = ("max_distance_m" :> 8000
                               @@ "distance_mode" :> "drive")

\* C9 witness: "within 10 minutes walk" has been parsed to an 830 metre
\* walking limit.
C9_Witness ==
    /\ Parsed
    /\ ps.input = Text(<<"within", "10", "minutes", "walk">>)
    /\ ps.out = ("max_distance_m" :> 830 @@ "distance_mode" :> "walk")

\* C10 as stated: parseConstraints returns an object for any input, and
\* text that matches none of the three documented phrases ("within N
\* minutes", "under $N", "under $$") yields an object with no fields, so no
\* refinement is triggered.
C10_UnmatchedTextNoFields ==
    Parsed =>
        /\ DOMAIN ps.out \subseteq DistanceFields \cup PriceFields
        /\ (\A i \in DOMAIN Said :
               /\ ~WithinPhraseAt(Said, i)
               /\ ~AmountPhraseAt(Said, i)
               /\ ~TierPhraseAt(Said, i))
              => ~hasConstraints(ps.out)

\* C10 amended: parseConstraints returns an object for any input, a
\* missing or empty text included, and text that has none of the phrases
\* the parser recognises (a number followed by min / minute(s), with or
\* without "within"; under / less than followed by a number, with or
\* without "$"; under / less than followed by currency symbols) yields an
\* object with no fields, so no refinement is triggered.
C10_UnrecognisedTextNoFields ==
    Parsed =>
        /\ DOMAIN ps.out \subseteq DistanceFields \cup PriceFields
        /\ (\A i \in DOMAIN Said :
               /\ ~MinutesPhraseAt(Said, i)
               /\ ~BareAmountPhraseAt(Said, i)
               /\ ~AmountPhraseAt(Said, i)
               /\ ~TierPhraseAt(Said, i))
              => ~hasConstraints(ps.out)

\* C10 witness: a text with words and a number but no phrase ("hello 10
\* hello") has been parsed to an object with no fields.
C10_Witness ==
    /\ Parsed
    /\ ps.input = Text(<<"hello", "10", "hello">>)
    /\ ps.out = <<>>
    /\ ~hasConstraints(ps.out)

(***************************************************************************)
(* The normalizers of chat_shim.js and the explain payloads.               *)
(*                                                                         *)
(* A raw provider record is a function from the names of the fields it     *)
(* has.  Numbers are held exactly, as integers: a weight in hundredths     *)
(* (45 is 0.45), a rating in tenths, a distance in metres, a score or a    *)
(* contribution in units of 1e-7.  log10 is a table, to five decimals,     *)
(* over the review counts of the model.  The records carry no coordinates:      *)
(* normGoogle derives a distance from them only when the page has set      *)
(* window.AM_user, which no code of the repository does.                   *)
(***************************************************************************)
MaxNormalizations == 2   \* times one raw record is normalized

\* IEEE addition and rounding errors are far below one unit of 1e-7
Tolerance == 10                                     \* 1e-6

\* { rating: 0.45, distance: -0.25, price: 0.1, reviews: 0.2 }
DefaultWeights ==
    ("rating" :> 45 @@ "distance" :> (0 - 25) @@ "price" :> 10 @@ "reviews" :> 20)

\* Object.assign(defaults, weights || {})
AssignWeights(weights) == weights @@ DefaultWeights

\* Math.log10(Math.max(reviews, 1) + 1), in units of 1e-5
Log10(reviews) ==
    CASE reviews <= 1 -> 30103           \* log10(2)
      [] reviews = 10 -> 104139          \* log10(11)
      [] reviews = 250 -> 239967         \* log10(251)

\* a ?? b ?? ... ?? dflt over the fields of a record
RECURSIVE Coalesce(_, _, _)
Coalesce(o, fields, dflt) ==
    IF fields = <<>> THEN dflt
    ELSE IF Has(o, Head(fields)) THEN o[Head(fields)]
    ELSE Coalesce(o, Tail(fields), dflt)

\* a || b || ... || dflt over the string fields of a record
RECURSIVE FirstTruthy(_, _, _)
FirstTruthy(o, fields, dflt) ==
    IF fields = <<>> THEN dflt
    ELSE IF Has(o, Head(fields)) /\ o[Head(fields)] # "" THEN o[Head(fields)]
    ELSE FirstTruthy(o, Tail(fields), dflt)

\* `g_${(p.name||'').slice(0,8)}_${Math.random().toString(36).slice(2,6)}`
SynthId(prefix, o, rand) == <<prefix, FirstTruthy(o, <<"name">>, ""), "_", rand>>

\* The contributions and the score, from the four normalized quantities
Contributions(w, rating, reviews, price_level, distance_m) ==
    ("rating" :> w["rating"] * rating * 10000
     @@ "distance" :> w["distance"] * distance_m * 100
     @@ "price" :> (IF price_level >= 0
                    THEN w["price"] * (3 - price_level) * 100000 ELSE 0)
     @@ "reviews" :> w["reviews"] * Log10(reviews))

\* Object.values(contributions).reduce((a, b) => a + b, 0)
RECURSIVE SumValues(_)
SumValues(c) ==
    IF DOMAIN c = {} THEN 0
    ELSE LET k == CHOOSE x \in DOMAIN c : TRUE
         IN  c[k] + SumValues([x \in DOMAIN c \ {k} |-> c[x]])

Unified(source, id, o, rating, reviews, price_level, distance_m, weights) ==
    LET c == Contributions(AssignWeights(weights), rating, reviews,
                           price_level, distance_m)
    IN  [source |-> source, id |-> id,
         name |-> FirstTruthy(o, <<"name">>, "Unknown"),
         rating |-> rating, reviews |-> reviews, price_level |-> price_level,
         distance_m |-> distance_m, score |-> SumValues(c), contributions |-> c,
         raw |-> [rating |-> rating, reviews |-> reviews,
                  price_level |-> price_level, distance_m |-> distance_m]]

\* normGoogle(p, weights); rand is what Math.random() gives
normGoogle(p, weights, rand) ==
    LET ident == FirstTruthy(p, <<"place_id", "id", "reference">>, "")
    IN  Unified("google",
                IF ident # "" THEN <<ident>> ELSE SynthId("g_", p, rand),
                p,
                Coalesce(p, <<"rating">>, 0),
                Coalesce(p, <<"user_ratings_total", "user_ratings_count">>, 0),
                Coalesce(p, <<"price_level">>, 0 - 1),
                Coalesce(p, <<"_distance_m", "distance_m">>, 0),
                weights)

\* normYelp(b, weights)
normYelp(b, weights, rand) ==
    LET ident == FirstTruthy(b, <<"id">>, "")
        len == IF Has(b, "price") THEN Len(b["price"]) ELSE 0
    IN  Unified("yelp",
                IF ident # "" THEN <<ident>> ELSE SynthId("y_", b, rand),
                b,
                Coalesce(b, <<"rating">>, 0),
                Coalesce(b, <<"review_count">>, 0),
                IF len > 0 THEN (IF len - 1 < 4 THEN len - 1 ELSE 4) ELSE 0 - 1,
                Coalesce(b, <<"distance", "_distance_m">>, 0),
                weights)

\* AM_tagCardsFromResults: the normalizer chosen for a record
Normalizer(source, r) ==
    IF source = "google" \/ Has(r, "place_id") \/ Has(r, "user_ratings_total")
    THEN "google" ELSE "yelp"

\* round3(x) = Math.round((x + Number.EPSILON) * 1000) / 1000
round3(x) == ((x + 5000) \div 10000) * 10000

\* mapVals(o, round3): round3 is the only function it is called with
mapVals(o) == [k \in DOMAIN o |-> round3(o[k])]

\* toExplain(u)
toExplain(u) ==
    [placeId |-> u.id, name |-> u.name, score |-> round3(u.score),
     contributions |-> mapVals(u.contributions),
     raw |-> [rating |-> u.raw.rating, distance_m |-> u.raw.distance_m,
              price_level |-> u.raw.price_level, reviews |-> u.raw.reviews]]

\* normalizePlaceForExplain(place), script.js
normalizePlaceForExplain(place) ==
    LET contrib == IF Has(place, "__contrib") THEN place["__contrib"] ELSE <<>>
    IN  [placeId |-> <<FirstTruthy(place, <<"place_id", "yelp_id", "id", "name">>, "")>>,
         name |-> FirstTruthy(place, <<"name">>, ""),
         score |-> Coalesce(place, <<"match_score", "__score">>, 0) * 10000000,
         contributions |->
             [k \in {"rating", "distance", "price", "reviews"} |->
                 Coalesce(contrib, <<k>>, 0)],
         raw |-> [rating |-> Coalesce(place, <<"rating", "rate">>, 0),
                  distance_m |->
                      Coalesce(place, <<"distance", "distance_m", "__distance_m">>, 0),
                  price_level |->
                      IF Has(place, "price_level") THEN place["price_level"]
                      ELSE IF Has(place, "price") THEN Len(place["price"]) ELSE 0,
                  reviews |->
                      Coalesce(place, <<"review_count", "user_ratings_total",
                                        "userRatingsTotal">>, 0),
                  source |->
                      FirstTruthy(place, <<"source">>,
                                  IF FirstTruthy(place, <<"yelp_id">>, "") # ""
                                  THEN "yelp" ELSE "google")]]

(***************************************************************************)
(* SpecNorm: one raw record, normalized up to MaxNormalizations times, and *)
(* the payloads attached to its card.                                      *)
(***************************************************************************)
Optional(k, values) == {<<>>} \cup {(k :> v) : v \in values}

RawRecords ==
    {a @@ b @@ c @@ d @@ e @@ f @@ g @@ h :
        a \in Optional("place_id", {"", "p1"}),
        b \in Optional("id", {"i1"}),
        c \in Optional("name", {"Cafe"}),
        d \in Optional("rating", {45}),
        e \in Optional("user_ratings_total", {250}) \cup Optional("review_count", {10}),
        f \in Optional("price_level", {2}) \cup Optional("price", {Dollars(2)}),
        g \in Optional("distance_m", {1234}),
        h \in {<<>>, ("match_score" :> 85),
               ("match_score" :> 85
                @@ "__contrib" :> ("rating" :> 20250000
                                   @@ "distance" :> (0 - 3085000)))}}

WeightOverrides == {<<>>, ("rating" :> 100 @@ "price" :> 7)}

RandomTokens == {"k3f9", "x01z"}

InitNorm ==
    /\ ChatIdle
    /\ script = <<>>
    /\ rf = NoRefine
    /\ ps = NoParse
    /\ ui = NoSession
    /\ ex = NoExplain
    /\ \E r \in RawRecords, w \in WeightOverrides :
          nm = [phase |-> "on", raw |-> r, weights |-> w, out |-> <<>>,
                payloads |-> {}, derived |-> {}]

nmOnly ==
    UNCHANGED <<reqs, text, panelOpen, panelMsgs, inlineMsgs,
                chatAbortController, inlineAbort, script, rf, ps, ui, ex>>

\* AM_tagCardsFromResults: results.map(r => normGoogle / normYelp (r, weights))
Normalize(source) ==
    /\ nm.phase = "on"
    /\ Len(nm.out) < MaxNormalizations
    /\ \E rand \in RandomTokens :
          nm' = [nm EXCEPT !.out =
                    Append(@, IF Normalizer(source, nm.raw) = "google"
                              THEN normGoogle(nm.raw, nm.weights, rand)
                              ELSE normYelp(nm.raw, nm.weights, rand))]
    /\ nmOnly

\* AM_tagCardsFromResults: card.dataset.explain = JSON.stringify(toExplain(u))
TagCard ==
    /\ nm.phase = "on"
    /\ nm.out # <<>>
    /\ nm' = [nm EXCEPT !.payloads = @ \cup {toExplain(nm.out[Len(nm.out)])}]
    /\ nmOnly

\* displayAIRecommendations: data-explain = normalizePlaceForExplain(place)
RenderCard ==
    /\ nm.phase = "on"
    /\ nm' = [nm EXCEPT !.payloads = @ \cup {normalizePlaceForExplain(nm.raw)}]
    /\ nmOnly

\* refinePlacesWithConstraints: ensureDerivedFields({ ...p })
DeriveFields ==
    /\ nm.phase = "on"
    /\ nm' = [nm EXCEPT !.derived = @ \cup {ensureDerivedFields(nm.raw)}]
    /\ nmOnly

NextNorm ==
    \/ \E source \in {"google", "yelp", "auto"} : Normalize(source)
    \/ TagCard
    \/ RenderCard
    \/ DeriveFields

SpecNorm == InitNorm /\ [][NextNorm]_vars

(***************************************************************************)
(* Claims about the normalizers.                                           *)
(***************************************************************************)
ContributionKeys == {"rating", "distance", "price", "reviews"}
Abs(x) == IF x < 0 THEN 0 - x ELSE x
ScoreIsSum(o) ==
    /\ DOMAIN o.contributions = ContributionKeys
    /\ Abs(o.score - (o.contributions["rating"] + o.contributions["distance"]
                      + o.contributions["price"] + o.contributions["reviews"]))
          <= Tolerance

\* C11: for every normalized place and for every explain payload attached
\* to a card, the score is the sum of the four contributions (within 1e-6)
\* and the contributions object has exactly the four keys.
C11_ScoreIsSumOfContributions ==
    nm.phase = "on" =>
        /\ \A n \in DOMAIN nm.out : ScoreIsSum(nm.out[n])
        /\ \A e \in nm.payloads : ScoreIsSum(e)

\* The part of C11 about the normalized places alone.
NormalizedScoreIsSum ==
    nm.phase = "on" => \A n \in DOMAIN nm.out : ScoreIsSum(nm.out[n])

\* The part of C11 about the payloads toExplain builds from them.
ToExplainScoreIsSum ==
    nm.phase = "on" =>
        \A n \in DOMAIN nm.out : ScoreIsSum(toExplain(nm.out[n]))

\* The id the specification gives a record: its first non-empty provider
\* id field, else its name; none when it has neither.
ProviderIdFields(source) ==
    IF source = "google" THEN <<"place_id", "id", "reference">> ELSE <<"id">>
StatedId(source, r) == FirstTruthy(r, ProviderIdFields(source) \o <<"name">>, "")

\* C12: two normalizations of the same raw record by the same normalizer
\* give the same id and the same score; the id is the first non-empty
\* provider id field, else the name of the record, and is synthesized with
\* a random token only when the record has neither.
C12_IdAndScoreStable ==
    nm.phase = "on" =>
        \A m, n \in DOMAIN nm.out :
            nm.out[m].source = nm.out[n].source =>
                /\ nm.out[m].id = nm.out[n].id
                /\ nm.out[m].score = nm.out[n].score
                /\ StatedId(nm.out[n].source, nm.raw) # ""
                      => nm.out[n].id = <<StatedId(nm.out[n].source, nm.raw)>>

\* The part of C12 that holds: the score is the same, and the id too for a
\* record that has a non-empty provider id field.
ScoreStableAndGivenIdKept ==
    nm.phase = "on" =>
        \A m, n \in DOMAIN nm.out :
            nm.out[m].source = nm.out[n].source =>
                /\ nm.out[m].score = nm.out[n].score
                /\ FirstTruthy(nm.raw, ProviderIdFields(nm.out[n].source), "") # ""
                      => /\ nm.out[m].id = nm.out[n].id
                         /\ nm.out[n].id = <<StatedId(nm.out[n].source, nm.raw)>>


-----------------------------------------------------------------------------
\* The page session: searches, the rendered list and map, the current result
\* set (the global places), window.__lastExplainPayload and the three
\* inputs. ui holds this state together with what is observed of the last
\* handler: which it was (event), the input box it read and the value it
\* found there (box, input), and whether it showed something to the user
\* (shown). The streams the
\* handlers start are requests of the chat state; what the server answers
\* is left out here (Spec and SpecStream cover it).

MaxSearches == 2
MaxFollowUps == 2
MaxNotices == 1

\* Places as the backend returns them. PlaceB has no coordinates, so it
\* gets no marker.
PlaceA == ("place_id" :> "a" @@ "name" :> "Alpha" @@ "rating" :> 30
           @@ "geo" :> 9000)
PlaceB == ("place_id" :> "b" @@ "name" :> "Beta" @@ "rating" :> 45
           @@ "distance_m" :> 100)
PlaceC == ("place_id" :> "c" @@ "name" :> "Gamma" @@ "rating" :> 40
           @@ "geo" :> 500 @@ "match_score" :> 85)
ResultSets == {<<>>, <<PlaceA, PlaceB>>, <<PlaceC>>}

\* What the user may have typed when submitting: nothing, whitespace only,
\* a text without constraints, a text with a limit. " " is a run of
\* whitespace at either end of the text.
Queries == {<<>>, <<" ">>, <<"pizza">>}
PanelTexts == {<<>>, <<" ">>, <<"hello", " ">>}
PromptTexts == {<<>>, <<" ">>, <<"hello">>,
                <<" ", "within", "10", "minutes">>}

\* input.value.trim()
RECURSIVE trimStart(_)
trimStart(u) ==
    IF u # <<>> /\ Head(u) = " " THEN trimStart(Tail(u)) ELSE u
RECURSIVE trimEnd(_)
trimEnd(u) ==
    IF u # <<>> /\ u[Len(u)] = " " THEN trimEnd(SubSeq(u, 1, Len(u) - 1)) ELSE u
\* (faulty variant of trim: whitespace is kept)
trimNothing(u) == u
trim(u) == trimEnd(trimStart(u))

\* displayAIRecommendations(list): one card per place, carrying its index
\* and its explain payload; the messages shown instead of cards otherwise
Cards(list) ==
    [i \in DOMAIN list |->
        [index |-> i - 1,
         id |-> FirstTruthy(list[i], <<"place_id", "id">>, ""),
         explain |-> normalizePlaceForExplain(list[i])]]
displayAIRecommendations(list) ==
    IF list = <<>> THEN [kind |-> "No places found", cards |-> <<>>]
    ELSE [kind |-> "cards", cards |-> Cards(list)]
ShowMessage(kind) == [kind |-> kind, cards |-> <<>>]

\* addMarkersToMap(list): the old markers are removed; a marker for each
\* place that has coordinates, carrying the index of the place in list
RECURSIVE MarkersFrom(_, _)
MarkersFrom(list, i) ==
    IF i > Len(list) THEN <<>>
    ELSE (IF Has(list[i], "geo")
          THEN <<[index |-> i - 1,
                  id |-> FirstTruthy(list[i], <<"place_id", "id">>, "")]>>
          ELSE <<>>) \o MarkersFrom(list, i + 1)
addMarkersToMap(list) == MarkersFrom(list, 1)

InitSession ==
    /\ ChatIdle
    /\ script = <<>>
    /\ rf = NoRefine
    /\ ps = NoParse
    /\ nm = NoNorm
    /\ ex = NoExplain
    /\ ui = [phase |-> "on",
             places |-> <<>>,
             list |-> ShowMessage("none"),
             markers |-> <<>>,
             lastExplain |-> {},
             pending |-> {},
             started |-> 0,
             newest |-> {},
             notices |-> 0,
             meta |-> <<>>,
             created |-> {},
             box |-> "none",
             input |-> <<>>,
             event |-> "load",
             shown |-> FALSE]

uiOnly == UNCHANGED <<reqs, text, panelOpen, panelMsgs, inlineMsgs,
                      chatAbortController, inlineAbort, script, rf, ps, nm, ex>>
chatOnly == UNCHANGED <<script, rf, ps, nm, ex>>

\* searchWithAI up to its fetch: an empty query gets an alert and nothing
\* else; any other query puts the loading message in the list
SearchSubmit(query) ==
    /\ ui.phase = "on"
    /\ NoMicrotask
    /\ IF trim(query) = <<>>
       THEN ui' = [ui EXCEPT !.box = "search", !.input = query,
                             !.event = "search blank", !.shown = TRUE]
       ELSE /\ ui.started < MaxSearches
            /\ ui' = [ui EXCEPT !.list = ShowMessage("loading"),
                                !.pending = @ \cup {ui.started + 1},
                                !.started = @ + 1,
                                !.newest = {},
                                !.box = "search", !.input = query, !.event = "search",
                                !.shown = TRUE]
    /\ uiOnly

\* searchWithAI after its fetch, for the n-th search started: the places
\* of the response become the current result set, the list and the
\* markers. pending holds the searches whose response is yet to come,
\* newest the places of the response to the search started last.
SearchSucceeds(n, result) ==
    /\ ui.phase = "on"
    /\ NoMicrotask
    /\ n \in ui.pending
    /\ ui' = [ui EXCEPT !.pending = @ \ {n},
                        !.newest = IF n = ui.started THEN {result} ELSE @,
                        !.places = result,
                        !.list = displayAIRecommendations(result),
                        !.markers = addMarkersToMap(result),
                        !.box = "none", !.input = <<>>, !.event = "search done",
                        !.shown = TRUE]
    /\ uiOnly

\* searchWithAI after its fetch, when the response has an error field
\* ("error") or the fetch or its decoding throws ("failed"): the list
\* shows the message
SearchFails(n, kind) ==
    /\ ui.phase = "on"
    /\ NoMicrotask
    /\ n \in ui.pending
    /\ ui' = [ui EXCEPT !.pending = @ \ {n},
                        !.list = ShowMessage(kind),
                        !.box = "none", !.input = <<>>, !.event = "search failed",
                        !.shown = TRUE]
    /\ uiOnly

\* explainWhyForCard(card) for the card at position i of the list
WhyClick(i) ==
    /\ ui.phase = "on"
    /\ i \in DOMAIN ui.list.cards
    /\ LET explain == ui.list.cards[i].explain
       IN  /\ streamChat("why", MaxFollowUps)
           /\ ui' = [ui EXCEPT !.lastExplain = {explain},
                               !.created = {explain},
                               !.meta = Append(@, {explain}),
                               !.box = "none", !.input = <<>>, !.event = "why",
                               !.shown = TRUE]
    /\ chatOnly

\* send.onclick of the chat panel
PanelSend(input) ==
    /\ ui.phase = "on"
    /\ NoMicrotask
    /\ panelOpen
    /\ IF trim(input) = <<>>
       THEN /\ ui' = [ui EXCEPT !.box = "panel", !.input = input,
                                !.event = "panel blank", !.shown = FALSE]
            /\ uiOnly
       ELSE IF ui.lastExplain = {}
       THEN /\ ui.notices < MaxNotices
            /\ text' = Append(text, <<"Select a place first">>)
            /\ panelMsgs' = Append(panelMsgs, Len(text) + 1)
            /\ ui' = [ui EXCEPT !.notices = @ + 1,
                                !.box = "panel", !.input = input,
                                !.event = "panel notice", !.shown = TRUE]
            /\ UNCHANGED <<reqs, inlineMsgs, chatAbortController, inlineAbort>>
            /\ chatOnly
       ELSE /\ streamChat("follow-up", MaxFollowUps)
            /\ ui' = [ui EXCEPT !.meta = Append(@, ui.lastExplain),
                                !.box = "panel", !.input = input, !.event = "panel follow-up",
                                !.shown = TRUE]
            /\ chatOnly

\* getActiveExplainPayload(): the payload of the first card, if any
getActiveExplainPayload ==
    IF ui.list.cards = <<>> THEN {} ELSE {ui.list.cards[1].explain}

\* handleSend of the inline prompt
handleSend(input) ==
    /\ ui.phase = "on"
    /\ NoMicrotask
    /\ LET constraints == parseConstraints(Text(trim(input)))
       IN  IF trim(input) = <<>>
           THEN /\ ui' = [ui EXCEPT !.box = "prompt", !.input = input,
                                    !.event = "prompt blank", !.shown = FALSE]
                /\ uiOnly
           ELSE IF hasConstraints(constraints) /\ ui.places # <<>>
           THEN \E refined \in refinePlacesWithConstraints(ui.places, constraints) :
                   LET explain ==
                           normalizePlaceForExplain(ensureDerivedFields(refined[1]))
                   IN  /\ streamInlineChatFrom(
                              Append(text, <<"Updated the list">>),
                              Append(inlineMsgs, Len(text) + 1),
                              "refined", MaxFollowUps)
                       /\ ui' = [ui EXCEPT
                                    !.list = displayAIRecommendations(refined),
                                    !.markers = addMarkersToMap(refined),
                                    !.lastExplain = {explain},
                                    !.created = {explain},
                                    !.meta = Append(@, {explain}),
                                    !.box = "prompt", !.input = input, !.event = "refine",
                                    !.shown = TRUE]
                       /\ chatOnly
           ELSE LET explain == IF ui.lastExplain # {} THEN ui.lastExplain
                               ELSE getActiveExplainPayload
                IN  IF explain = {}
                    THEN /\ ui.notices < MaxNotices
                         /\ text' = Append(text, <<"Please select a place">>)
                         /\ inlineMsgs' = Append(inlineMsgs, Len(text) + 1)
                         /\ ui' = [ui EXCEPT !.notices = @ + 1,
                                             !.box = "prompt", !.input = input,
                                             !.event = "prompt notice",
                                             !.shown = TRUE]
                         /\ UNCHANGED <<reqs, panelOpen, panelMsgs,
                                        chatAbortController, inlineAbort>>
                         /\ chatOnly
                    ELSE /\ streamInlineChat("follow-up", MaxFollowUps)
                         /\ ui' = [ui EXCEPT !.meta = Append(@, explain),
                                             !.box = "prompt", !.input = input,
                                             !.event = "prompt follow-up",
                                             !.shown = TRUE]
                         /\ chatOnly

NextSession ==
    \/ \E query \in Queries : SearchSubmit(query)
    \/ \E n \in 1..MaxSearches, result \in ResultSets : SearchSucceeds(n, result)
    \/ \E n \in 1..MaxSearches, kind \in {"error", "failed"} : SearchFails(n, kind)
    \/ \E i \in 1..MaxPlaces : WhyClick(i)
    \/ \E input \in PanelTexts : PanelSend(input)
    \/ \E input \in PromptTexts : handleSend(input)
    \/ \E r \in DOMAIN reqs : AbortObserved(r)

SpecSession == InitSession /\ [][NextSession]_vars

\* The place an index carried by a card or a marker refers to in the
\* current result set
IdAt(index) ==
    IF index + 1 \in DOMAIN ui.places
    THEN FirstTruthy(ui.places[index + 1], <<"place_id", "id">>, "")
    ELSE ""

\* C13: in every state reached by searches (successful, failed, answered
\* with an error) and refinements, the cards of the list and the markers of
\* the map are those of the current result set in its order: the index a
\* card or a marker carries is the position of its place in the current
\* result set, and a list that shows cards shows one per place of it.
C13_ListMarkersAndResultSetAgree ==
    ui.phase = "on" =>
        /\ \A i \in DOMAIN ui.list.cards :
              ui.list.cards[i].id = IdAt(ui.list.cards[i].index)
        /\ \A i \in DOMAIN ui.markers :
              ui.markers[i].id = IdAt(ui.markers[i].index)
        /\ ui.list.kind = "cards" => Len(ui.list.cards) = Len(ui.places)

\* A refinement has re-ordered the list.
C13_Witness ==
    /\ ui.phase = "on"
    /\ ui.event = "refine"
    /\ Len(ui.list.cards) > 1
    /\ ui.list.cards[1].id # IdAt(0)

\* The ids of the places of the current result set, as payloads name them
CurrentIds ==
    {normalizePlaceForExplain(ui.places[i]).placeId : i \in DOMAIN ui.places}

\* The last handler sent a follow-up that carried a payload it did not make.
FollowUpSent == ui.phase = "on" /\ ui.event \in {"panel follow-up", "prompt follow-up"}

\* C18: a follow-up that does not itself select a place is sent with the
\* explain payload most recently created by a "why" click or a refinement
\* as its clientMeta.resultExplanation, and the place of that payload is
\* in the current result set.
C18_FollowUpCarriesCurrentPayload ==
    FollowUpSent =>
        /\ ui.created # {} => ui.meta[Len(ui.meta)] = ui.created
        /\ \A e \in ui.meta[Len(ui.meta)] : e.placeId \in CurrentIds

\* The part of C18 that holds: the payload sent is the most recently
\* created one.
FollowUpCarriesLastCreated ==
    FollowUpSent /\ ui.created # {} => ui.meta[Len(ui.meta)] = ui.created

\* A follow-up went out with a payload made by an earlier "why" click.
C18_Witness ==
    /\ FollowUpSent
    /\ ui.created # {}
    /\ Len(ui.meta) > 1

\* A value of an input box that is empty or whitespace only
Blank(u) == \A i \in DOMAIN u : u[i] = " "

\* C19: an empty or whitespace-only submission on the search box, the chat
\* panel input or the inline prompt shows the user a prompt.
C19_BlankSubmissionPrompts ==
    ui.phase = "on" /\ ui.box # "none" /\ Blank(ui.input) => ui.shown

\* C19 as the handlers have it: a blank submission on any of the three
\* inputs starts no search and no stream and leaves the result set, the
\* list, the markers, the transcript and the active streams as they were;
\* the search box shows an alert, the chat panel input and the inline
\* prompt show nothing.
C19_BlankSubmissionChangesNothing ==
    [][ui.phase = "on" /\ ui' # ui /\ ui'.box # "none" /\ Blank(ui'.input)
        => /\ UNCHANGED <<reqs, text, panelOpen, panelMsgs, inlineMsgs,
                          chatAbortController, inlineAbort>>
           /\ ui'.places = ui.places
           /\ ui'.list = ui.list
           /\ ui'.markers = ui.markers
           /\ ui'.pending = ui.pending
           /\ ui'.lastExplain = ui.lastExplain
           /\ ui'.meta = ui.meta
           /\ ui'.shown = (ui'.box = "search")]_vars

\* Whitespace was submitted on the chat panel input while a stream was
\* active and a result set was shown.
C19_Witness ==
    /\ ui.phase = "on"
    /\ ui.box = "panel"
    /\ ui.input = <<" ">>
    /\ chatAbortController # 0
    /\ ui.places # <<>>

-----------------------------------------------------------------------------
\* SpecFrames: one stream, on either surface, answered with any script of
\* up to MaxFrames frames of the kinds the dispatch tells apart, delivered
\* in any chunks.

Frame(ev, data) == [ev |-> ev, data |-> data]

FrameKinds ==
    {Frame("delta", <<"{", "content", "Hi", "}">>),
     Frame("delta", <<"{", "content", "", "delta", "x", "}">>),
     Frame("message", <<"{", "token", "tok", "}">>),
     Frame("delta", <<"{", "role", "bot", "}">>),
     Frame("start", <<"{", "content", "Hi", "}">>),
     Frame("done", <<"{", "content", "bye", "}">>),
     Frame("error", <<"{", "message", "boom", "}">>),
     Frame("error", <<"{", "code", "500", "}">>),
     Frame("error", <<"oops">>),
     Frame("message", <<"raw">>),
     Frame("message", <<"DONE">>),
     SentinelFrame}

InitFrames ==
    /\ ChatIdle
    /\ script \in SeqsUpTo(FrameKinds, MaxFrames)
    /\ rf = NoRefine
    /\ ps = NoParse
    /\ nm = NoNorm
    /\ ui = NoSession
    /\ ex = NoExplain

SpecFrames == InitFrames /\ [][NextStream]_vars

\* What the handler of a surface appends for a frame on its own.
Piece(surface, f) == Dispatch(surface, f.ev, f.data, <<>>)

\* The text of the bubble of a stream that has ended is what the frames
\* before frame i add, then piece, then what the frames after frame i add.
TextAround(r, i, piece) ==
    LET own == [j \in DOMAIN script |-> Piece(reqs[r].surface, script[j])]
    IN  text[reqs[r].bubble] =
            Flatten(SubSeq(own, 1, i - 1)) \o piece
                \o Flatten(SubSeq(own, i + 1, Len(own)))

Ended(r) == reqs[r].pc = "completed" /\ reqs[r].path = "stream"

\* The text between what the frames before frame i add and what the
\* frames after it add, when the text of the bubble has both
Between(r, i) ==
    LET own == [j \in DOMAIN script |-> Piece(reqs[r].surface, script[j])]
        pre == Flatten(SubSeq(own, 1, i - 1))
        post == Flatten(SubSeq(own, i + 1, Len(own)))
        txt == text[reqs[r].bubble]
    IN  SubSeq(txt, Len(pre) + 1, Len(txt) - Len(post))

\* C14: a frame whose event is "error" adds an error annotation to the
\* assistant message and does not stop the stream: when the stream has
\* ended the text is what the earlier frames added, then the annotation,
\* then what the later frames added.
C14_ErrorFrameAnnotated ==
    \A r \in DOMAIN reqs : \A i \in DOMAIN script :
        Ended(r) /\ script[i].ev = "error" =>
            /\ TextAround(r, i, Between(r, i))
            /\ Between(r, i) # <<>>
            /\ Head(Between(r, i)) = "[Error]"

\* The data strings a surface takes for the end of the stream
Sentinels(surface) ==
    IF surface = "panel" THEN {<<"[DONE]">>, <<"DONE">>} ELSE {<<"[DONE]">>}

\* C14 as the handlers have it: the annotation is added when the data of
\* the error frame is a JSON object ("[Error]" and its message field, or
\* the whole payload when it has none); data that is no JSON is added as
\* it is, without "[Error]", and a sentinel adds nothing. In each case the
\* text of the earlier frames is kept and the later frames add theirs
\* after it.
C14_ErrorFrameKeepsStream ==
    \A r \in DOMAIN reqs : \A i \in DOMAIN script :
        Ended(r) /\ script[i].ev = "error" =>
            TextAround(r, i,
                IF IsJsonObject(script[i].data)
                THEN <<"[Error]",
                       IF "message" \in DOMAIN JsonParse(script[i].data)
                       THEN JsonParse(script[i].data)["message"] ELSE "JSON">>
                ELSE IF script[i].data \in Sentinels(reqs[r].surface) THEN <<>>
                ELSE script[i].data)

\* A stream ended in which a content frame came after an error frame.
C14_Witness ==
    \E r \in DOMAIN reqs :
        /\ Ended(r)
        /\ Len(script) = 2
        /\ script[1] = Frame("error", <<"{", "message", "boom", "}">>)
        /\ script[2] = Frame("delta", <<"{", "content", "Hi", "}">>)
        /\ text[reqs[r].bubble] = <<"[Error]", "boom", "Hi">>

\* The value of the first of the fields that p has with a non-empty value;
\* "" when there is none
RECURSIVE FirstNonEmpty(_, _)
FirstNonEmpty(p, fields) ==
    IF fields = <<>> THEN ""
    ELSE IF Head(fields) \in DOMAIN p /\ p[Head(fields)] # "" THEN p[Head(fields)]
    ELSE FirstNonEmpty(p, Tail(fields))

\* A frame whose payload both surfaces hand to appendFromPayload
IsContentFrame(f) ==
    IsJsonObject(f.data) /\ f.ev \notin {"start", "done", "error"}

\* C15: the text a JSON payload adds is the value of the first field among
\* content, delta, token, text, message that is present and non-empty; an
\* empty field is passed over for a later non-empty one, and nothing is
\* added only when all five are absent or empty.
C15_FirstNonEmptyFieldAppended ==
    \A r \in DOMAIN reqs : \A i \in DOMAIN script :
        Ended(r) /\ IsContentFrame(script[i]) =>
            LET v == FirstNonEmpty(JsonParse(script[i].data), ContentFields)
            IN  TextAround(r, i, IF v = "" THEN <<>> ELSE <<v>>)

\* What holds instead: the first field that is present decides, and
\* nothing is added when it is empty.
FirstPresentFieldAppended ==
    \A r \in DOMAIN reqs : \A i \in DOMAIN script :
        Ended(r) /\ IsContentFrame(script[i]) =>
            LET p == JsonParse(script[i].data)
                present == SelectSeq(ContentFields, LAMBDA k : k \in DOMAIN p)
            IN  TextAround(r, i, IF present = <<>> \/ p[Head(present)] = ""
                                 THEN <<>> ELSE <<p[Head(present)]>>)

\* A stream ended whose only frame had an empty content and a delta "x":
\* nothing was added.
C15_Witness ==
    \E r \in DOMAIN reqs :
        /\ Ended(r)
        /\ script = <<Frame("delta", <<"{", "content", "", "delta", "x", "}">>)>>
        /\ text[reqs[r].bubble] = <<>>

\* C16: the data of a frame that is no JSON is added to the assistant
\* message as it is, whatever the event of the frame, unless it is a
\* sentinel the surface takes for the end of the stream, which adds
\* nothing; the text of the other frames is kept around it.
C16_RawDataAppended ==
    \A r \in DOMAIN reqs : \A i \in DOMAIN script :
        Ended(r) /\ ~IsJsonObject(script[i].data) =>
            TextAround(r, i,
                IF script[i].data \in Sentinels(reqs[r].surface) THEN <<>>
                ELSE script[i].data)

\* A stream of the inline surface ended that had the raw frames "raw" and
\* "DONE": both are in the text.
C16_Witness ==
    \E r \in DOMAIN reqs :
        /\ Ended(r)
        /\ reqs[r].surface = "inline"
        /\ script = <<Frame("message", <<"raw">>), Frame("message", <<"DONE">>)>>
        /\ text[reqs[r].bubble] = <<"raw", "DONE">>

-----------------------------------------------------------------------------
\* Responses that are no stream (Spec).

\* res.text() of request r settles in this step.
BodySettles(r) ==
    /\ r \in DOMAIN reqs
    /\ reqs[r].pc \in {"text_http", "text_plain"}
    /\ reqs'[r].pc = "completed"

\* A body as the text of a bubble: the empty body is the empty text.
AsText(txt) == IF txt = "" THEN <<>> ELSE <<txt>>

\* C17: when the endpoint answers with an error status or with a content
\* type that is no event stream, the assistant message becomes the body of
\* the response and nothing else.
C17_BodyShownVerbatim ==
    [][\A r \in DOMAIN reqs :
          BodySettles(r) =>
              \E txt \in Bodies : text'[reqs[r].bubble] = AsText(txt)]_vars

\* C17 as the handlers have it: on an error status the message becomes the
\* line "HTTP <status> <statusText>" followed by the body; on a content
\* type that is no event stream it becomes the body, or "[No stream body]"
\* when the body is empty. No other bubble changes, and the surface takes
\* a further message whenever no rejection is pending.
C17_BodyShownWithStatus ==
    /\ [][\A r \in DOMAIN reqs :
             BodySettles(r) =>
                 /\ \E txt \in Bodies :
                       text'[reqs[r].bubble] =
                           IF reqs[r].path = "http"
                           THEN <<"HTTP status">> \o AsText(txt)
                           ELSE IF txt = "" THEN <<"[No stream body]">>
                           ELSE AsText(txt)
                 /\ \A b \in DOMAIN text :
                       b # reqs[r].bubble => text'[b] = text[b]]_vars
    /\ [](\A r \in DOMAIN reqs :
             (/\ reqs[r].pc = "completed"
              /\ reqs[r].path \in {"http", "plain"}
              /\ NoMicrotask
              /\ Len(reqs) < MaxReqs)
                 => IF reqs[r].surface = "panel"
                    THEN ENABLED StreamChat("msg", MaxReqs)
                    ELSE ENABLED StreamInlineChat("msg", MaxReqs))

\* A surface got an error status with the body "body", showed both, and
\* took a further message.
C17_Witness ==
    \E r, q \in DOMAIN reqs :
        /\ r < q
        /\ reqs[r].surface = reqs[q].surface
        /\ reqs[r].pc = "completed"
        /\ reqs[r].path = "http"
        /\ reqs[r].bubble \in DOMAIN text
        /\ text[reqs[r].bubble] = <<"HTTP status", "body">>

-----------------------------------------------------------------------------
\* The refined score as a number (SpecRefine).

\* The baseline as stated, times 20: the match score when it is a number
\* other than 0, else rating x 10 + min(reviewCount, 200) / 20.
StatedBaseline20(p) ==
    IF Has(p, "match_score") /\ p.match_score # 0 THEN 20 * p.match_score
    ELSE (IF Has(p, "rating") THEN 20 * p.rating ELSE 0)
         + (IF Has(p, "review_count")
            THEN (IF p.review_count > ReviewCap THEN ReviewCap
                  ELSE p.review_count)
            ELSE 0)

\* max(0, round(baseline - 20 x penalty)) for a limit that is absent or
\* above 0: the penalty is over / limit plus the flat terms.
StatedScore(p, c) ==
    IF Has(c, "max_distance_m") /\ Has(p, "distance_m")
    THEN LET m == c.max_distance_m
         IN  Max0(Round(5 * StatedBaseline20(p) * m
                            - 100 * PenaltyWeight * Over(p.distance_m, m)
                            - PenaltyWeight * FlatPenalty(p, c) * m,
                        100 * m))
    ELSE Max0(Round(5 * StatedBaseline20(p) - PenaltyWeight * FlatPenalty(p, c),
                    100))

PositiveLimit(c) == Has(c, "max_distance_m") => c.max_distance_m > 0

\* C21: for every place and every constraint, a limit of zero minutes
\* included, the refined score is a non-negative integer, and it is
\* max(0, round(baseline - 20 x penalty)).
C21_ScoreIsNonNegativeInteger ==
    Refined =>
        \A i \in DOMAIN rf.places :
            LET q == ensureDerivedFields(rf.places[i])
                s == ScoreOf(rf.out, i)
            IN  /\ ~IsNaN(s)
                /\ s \in Nat
                /\ PositiveLimit(rf.c) => s = StatedScore(q, rf.c)

\* The part of C21 that holds: under a limit that is absent or above zero
\* the refined score is the stated non-negative integer.
ScoreIsStatedUnderPositiveLimit ==
    Refined /\ PositiveLimit(rf.c) =>
        \A i \in DOMAIN rf.places :
            LET s == ScoreOf(rf.out, i)
            IN  /\ ~IsNaN(s)
                /\ s \in Nat
                /\ s = StatedScore(ensureDerivedFields(rf.places[i]), rf.c)

\* A place at 0 metres was refined under a limit of 0 metres.
C21_Witness ==
    /\ rf.phase = "refined"
    /\ Has(rf.c, "max_distance_m") /\ rf.c.max_distance_m = 0
    /\ \E i \in DOMAIN rf.places :
          /\ Has(rf.places[i], "distance_m")
          /\ rf.places[i].distance_m = 0
          /\ IsNaN(ScoreOf(rf.out, i))

-----------------------------------------------------------------------------
\* The price tier of a raw record on each path (SpecNorm). A tier is held
\* as the set of its value; the empty set is null.

\* The tier as stated: a numeric tier as it is, else the length of a string
\* of currency symbols; none is stated for a record with neither.
HasPriceInfo(r) == Has(r, "price_level") \/ (Has(r, "price") /\ Len(r["price"]) > 0)
StatedTier(r) ==
    IF Has(r, "price_level") THEN r["price_level"] ELSE Len(r["price"])

\* The tiers the paths run so far have derived from the raw record
TiersDerived ==
    {{nm.out[n].price_level} : n \in DOMAIN nm.out}
        \cup {{e.raw.price_level} : e \in nm.payloads}
        \cup {IF Has(q, "price_level") THEN {q["price_level"]} ELSE {} :
                 q \in nm.derived}

ValidTiers == 1..4

\* C22: every path derives the same tier from the same raw record: the
\* stated tier when the record has price information, and otherwise one
\* value for unknown that is no valid tier.
C22_SamePriceTierOnEveryPath ==
    nm.phase = "on" =>
        /\ HasPriceInfo(nm.raw) => TiersDerived \subseteq {{StatedTier(nm.raw)}}
        /\ ~HasPriceInfo(nm.raw) =>
              /\ Cardinality(TiersDerived) <= 1
              /\ \A t \in TiersDerived : t \cap ValidTiers = {}

\* What the paths share: a record without price information never gets a
\* valid tier on any path.
UnknownPriceGetsNoValidTier ==
    nm.phase = "on" /\ ~HasPriceInfo(nm.raw) =>
        \A t \in TiersDerived : t \cap ValidTiers = {}

\* A record with price "$$" went through normYelp (tier 1) and
\* through normalizePlaceForExplain and ensureDerivedFields (tier 2).
C22_Witness ==
    /\ nm.phase = "on"
    /\ Has(nm.raw, "price") /\ ~Has(nm.raw, "price_level")
    /\ \E n \in DOMAIN nm.out : nm.out[n].source = "yelp"
    /\ TiersDerived = {{1}, {2}}

-----------------------------------------------------------------------------
\* SpecExplain: formatExplainIntro on an explain payload. rating is held in
\* tenths; a field that is undefined is not in the domain of raw. The intro
\* is held as its parts: the drivers named in the first sentence, the facts
\* of the second in their order, whether the third and fourth are there.

NoFact == [kind |-> "none", n |-> 0, word |-> ""]
Fact(kind, n, word) == [kind |-> kind, n |-> n, word |-> word]

\* humanizePrice(level): "" is null
humanizePrice(level) ==
    IF level = {} THEN ""
    ELSE LET l == CHOOSE x \in level : TRUE
             capped == IF l < 4 THEN l ELSE 4
         IN  IF l = 0 THEN ""
             ELSE IF capped = 1 THEN "budget-friendly"
             ELSE IF capped = 2 THEN "moderate"
             ELSE IF capped = 3 THEN "higher-end"
             ELSE IF capped = 4 THEN "premium"
             ELSE ""

\* (faulty variant of humanizeDistance: the test for 0 and below is left
\* out)
humanizeDistanceUnguarded(m) ==
    IF m = {} THEN NoFact
    ELSE LET d == CHOOSE x \in m : TRUE
         IN  IF d < 900 THEN Fact("distance", d, "m away")
             ELSE Fact("distance", Round(d, 100), "km away")

\* humanizeDistance(m): metres below 900, else kilometres to one decimal
\* (held in tenths); NoFact is null
humanizeDistance(m) ==
    IF m = {} THEN NoFact
    ELSE LET d == CHOOSE x \in m : TRUE
         IN  IF d <= 0 THEN NoFact
             ELSE IF d < 900 THEN Fact("distance", d, "m away")
             ELSE Fact("distance", Round(d, 100), "km away")

DriverKeys == <<"rating", "distance", "price", "reviews">>
DriverWord(k) ==
    CASE k = "rating" -> "ratings"
      [] k = "reviews" -> "review volume"
      [] k = "distance" -> "proximity"
      [] k = "price" -> "price fit"

\* topDrivers(contrib): the keys of the non-zero contributions, the
\* largest magnitude first, three at most
RECURSIVE ByMagnitude(_, _)
ByMagnitude(contrib, keys) ==
    IF keys = <<>> THEN <<>>
    ELSE LET best == CHOOSE i \in DOMAIN keys :
                        \A j \in DOMAIN keys :
                            \/ Abs(contrib[keys[i]]) > Abs(contrib[keys[j]])
                            \/ Abs(contrib[keys[i]]) = Abs(contrib[keys[j]]) /\ i <= j
         IN  <<keys[best]>>
                 \o ByMagnitude(contrib,
                                SelectSeq(keys, LAMBDA k : k # keys[best]))
topDrivers(contrib) ==
    LET nonzero == SelectSeq(DriverKeys,
                             LAMBDA k : k \in DOMAIN contrib /\ contrib[k] # 0)
        sorted == ByMagnitude(contrib, nonzero)
        top == SubSeq(sorted, 1, IF Len(sorted) < 3 THEN Len(sorted) ELSE 3)
    IN  [i \in DOMAIN top |-> DriverWord(top[i])]

\* The value of a raw field as a set: empty when the payload has no raw
\* or raw has no such field
RawField(explain, k) ==
    IF Has(explain, "raw") /\ Has(explain["raw"], k)
    THEN {explain["raw"][k]} ELSE {}
Truthy(v) == v # {} /\ v # {0}

\* formatExplainIntro(explain, userQuery, extraHints)
formatExplainIntro(explain, userQuery, extraHints) ==
    LET r == RawField(explain, "rating")
        v == RawField(explain, "reviews")
        rating == IF Truthy(r) THEN Fact("rating", CHOOSE x \in r : TRUE, "rated")
                  ELSE NoFact
        reviews == IF Truthy(v) THEN Fact("reviews", CHOOSE x \in v : TRUE, "reviews")
                   ELSE NoFact
        distance == humanizeDistance(RawField(explain, "distance_m"))
        p == humanizePrice(RawField(explain, "price_level"))
        price == IF p # "" THEN Fact("price", 0, p) ELSE NoFact
        drivers == topDrivers(explain.contributions)
    IN  [drivers |-> drivers,
         basis |-> IF drivers # <<>> THEN "drivers"
                   ELSE IF rating # NoFact \/ reviews # NoFact
                        THEN "community ratings"
                   ELSE "overall fit",
         facts |-> SelectSeq(<<rating, reviews, price, distance>>,
                             LAMBDA f : f # NoFact),
         intent |-> trim(userQuery) # <<>>,
         hint |-> extraHints]

\* The payloads: every raw field absent, 0, or a value; for the tier also
\* the sentinel -1 and a tier above 4, for the distance a negative one.
RawParts ==
    {a @@ b @@ c @@ d :
        a \in Optional("rating", {0, 45}),
        b \in Optional("reviews", {0, 120}),
        c \in Optional("price_level", {0 - 1, 0, 1, 4, 5}),
        d \in Optional("distance_m", {0 - 5, 0, 450, 1234})}
ContributionParts ==
    {[k \in {"rating", "distance", "price", "reviews"} |-> 0],
     ("rating" :> 20 @@ "distance" :> (0 - 3) @@ "price" :> 0 @@ "reviews" :> 0)}
ExplainPayloads ==
    {("name" :> "Cafe" @@ "contributions" :> c @@ "raw" :> r) :
        c \in ContributionParts, r \in RawParts}
        \cup {("name" :> "Cafe" @@ "contributions" :> c) : c \in ContributionParts}

InitExplain ==
    /\ ChatIdle
    /\ script = <<>>
    /\ rf = NoRefine
    /\ ps = NoParse
    /\ nm = NoNorm
    /\ ui = NoSession
    /\ \E e \in ExplainPayloads, q \in Queries :
          ex = [phase |-> "input", explain |-> e, userQuery |-> q,
                intro |-> formatExplainIntro(("name" :> "" @@ "contributions" :> <<>>),
                                             <<>>, FALSE)]

\* explainWhyForCard: msg = formatExplainIntro(explain, userQuery, hints)
FormatIntro(suggestRefine) ==
    /\ ex.phase = "input"
    /\ ex' = [ex EXCEPT !.phase = "done",
                        !.intro = formatExplainIntro(ex.explain, ex.userQuery,
                                                     suggestRefine)]
    /\ UNCHANGED <<reqs, text, panelOpen, panelMsgs, inlineMsgs,
                   chatAbortController, inlineAbort, script, rf, ps, nm, ui>>

NextExplain == \E suggestRefine \in BOOLEAN : FormatIntro(suggestRefine)

SpecExplain == InitExplain /\ [][NextExplain]_vars

\* The intro made states a fact of the kind.
States(kind) ==
    ex.phase = "done" /\ \E i \in DOMAIN ex.intro.facts : ex.intro.facts[i].kind = kind

\* The raw field is known and other than 0.
Known(k) == Truthy(RawField(ex.explain, k))

\* C23: the intro states a rating, a review count, a price description or
\* a distance only when the raw field is known and not 0, and a price
\* description only for the tiers 1 to 4.
C23_OnlyKnownFactsStated ==
    /\ States("rating") => Known("rating")
    /\ States("reviews") => Known("reviews")
    /\ States("distance") => Known("distance_m")
    /\ States("price") => RawField(ex.explain, "price_level") \cap ValidTiers # {}

\* C23 as formatExplainIntro has it: a rating or a review count is stated
\* only when the raw field is known and not 0, a distance only when it is
\* above 0, a price description only for a tier of 1 or more; a tier above
\* 4 is described as tier 4 is.
C23_FactsStatedForKnownFields ==
    /\ States("rating") => Known("rating")
    /\ States("reviews") => Known("reviews")
    /\ States("distance") =>
          \E d \in RawField(ex.explain, "distance_m") : d > 0
    /\ States("price") =>
          \E l \in RawField(ex.explain, "price_level") :
              /\ l >= 1
              /\ \E i \in DOMAIN ex.intro.facts :
                    /\ ex.intro.facts[i].kind = "price"
                    /\ ex.intro.facts[i].word =
                           humanizePrice({IF l < 4 THEN l ELSE 4})
                    /\ l > 4 => ex.intro.facts[i].word = "premium"

\* An intro was made of a payload with rating 0, tier -1 and distance 0
\* but 120 reviews: the review count is its only fact.
C23_Witness ==
    /\ ex.phase = "done"
    /\ RawField(ex.explain, "rating") = {0}
    /\ RawField(ex.explain, "price_level") = {0 - 1}
    /\ RawField(ex.explain, "distance_m") = {0}
    /\ ex.intro.facts = <<Fact("reviews", 120, "reviews")>>

-----------------------------------------------------------------------------
\* The life of a request. SpecLive is Spec with the transport assumed to go
\* on: the rejection of an abort is delivered, a response pending arrives,
\* a body pending is read to its end.

Terminal == {"completed", "cancelled", "failed"}

\* Sending, then Streaming (the body is awaited or read), then an end
Rank(pc) ==
    IF pc = "sending" THEN 1 ELSE IF pc \in Terminal THEN 3 ELSE 2

Progress(r) ==
    /\ r \in DOMAIN reqs
    /\ \/ AbortObserved(r)
       \/ ResponseArrives(r)
       \/ BodyText(r)
       \/ ReadDone(r)

\* reader.read() can deliver a chunk: what enables ReadChunk(r)
CanRead(r) ==
    /\ r \in DOMAIN reqs
    /\ NoMicrotask
    /\ reqs[r].pc = "reading"
    /\ reqs[r].wire # <<>>

\* Weak fairness of ReadChunk(r), with its enabling condition written out
ReadFair(r) ==
    \/ []<>~CanRead(r)
    \/ []<><<r \in DOMAIN reqs /\ ReadChunk(r)>>_vars

SpecLive ==
    Spec /\ \A r \in 1..MaxReqs : WF_vars(Progress(r)) /\ ReadFair(r)

Ends(r) == r \in DOMAIN reqs /\ reqs[r].pc \in Terminal

\* C24: a request only moves forward through Sending and Streaming to one
\* of Completed, Cancelled and Failed; once there it stays there and the
\* text of its bubble stays as it is; and every request started gets
\* there when the transport ends the body, fails or is aborted.
C24_RequestEndsOnceAndForAll ==
    /\ [][\A r \in DOMAIN reqs :
             /\ Rank(reqs'[r].pc) >= Rank(reqs[r].pc)
             /\ reqs[r].pc \in Terminal =>
                   /\ reqs'[r].pc = reqs[r].pc
                   /\ text'[reqs[r].bubble] = text[reqs[r].bubble]]_vars
    /\ \A r \in 1..MaxReqs : (r \in DOMAIN reqs) ~> Ends(r)

\* One request was cancelled by the next, which was read to the end of
\* its body; the signal of the second was aborted after that.
C24_Witness ==
    \E r, q \in DOMAIN reqs :
        /\ reqs[r].pc = "cancelled"
        /\ reqs[q].pc = "completed" /\ reqs[q].path = "stream"
        /\ reqs[q].aborted
        /\ text[reqs[q].bubble] = <<"Hi", " there">>

-----------------------------------------------------------------------------
\* The two stream handlers on the same response body.

OtherSurface(surface) == IF surface = "panel" THEN "inline" ELSE "panel"

\* The assistant text the handler of a surface makes of the whole body
ParsedBy(surface) == OnChunk(surface, <<>>, EncodeAll(script), <<>>).text

\* Frames the two dispatches treat differently: a JSON payload under the
\* event "start" or "done", and the data "DONE"
ToldApart(f) ==
    \/ f.ev \in {"start", "done"} /\ IsJsonObject(f.data)
    \/ f.data = <<"DONE">>

\* C25: streamChat and streamInlineChat are equivalent parsers: the text
\* of a stream that has ended on one surface is the text the handler of
\* the other surface makes of the same frames.
C25_HandlersParseAlike ==
    \A r \in DOMAIN reqs :
        Ended(r) => text[reqs[r].bubble] = ParsedBy(OtherSurface(reqs[r].surface))

\* The handlers agree on every body without a start or done event
\* carrying a JSON payload and without the data "DONE".
HandlersParseAlikeOtherwise ==
    \A r \in DOMAIN reqs :
        Ended(r) /\ (\A i \in DOMAIN script : ~ToldApart(script[i])) =>
            text[reqs[r].bubble] = ParsedBy(OtherSurface(reqs[r].surface))

\* An inline stream has ended on a done event with content and on the
\* data "DONE" and shows both, of which the panel handler shows nothing.
C25_Witness ==
    \E r \in DOMAIN reqs :
        /\ Ended(r)
        /\ reqs[r].surface = "inline"
        /\ script = <<Frame("done", <<"{", "content", "bye", "}">>),
                      Frame("message", <<"DONE">>)>>
        /\ text[reqs[r].bubble] = <<"bye", "DONE">>
        /\ ParsedBy("panel") = <<>>

-----------------------------------------------------------------------------
\* Searches started before the responses to earlier ones have come.

\* Every search started has been answered, the one started last with
\* places, and the last thing that happened is such an answer
AllAnswered ==
    /\ ui.phase = "on"
    /\ ui.pending = {}
    /\ ui.newest # {}
    /\ ui.event \in {"search done", "search failed"}

\* C26: once the responses to all searches started have come, the result
\* set, the list and the markers are those of the search started last, in
\* whatever order the responses came.
C26_NewestSearchShown ==
    AllAnswered =>
        /\ ui.places \in ui.newest
        /\ ui.list = displayAIRecommendations(ui.places)
        /\ ui.markers = addMarkersToMap(ui.places)

\* What is shown after an answer with places is the places of that
\* answer, of whichever search it is.
LastAnswerShown ==
    ui.phase = "on" /\ ui.event = "search done" =>
        /\ ui.list = displayAIRecommendations(ui.places)
        /\ ui.markers = addMarkersToMap(ui.places)

\* Two searches were started; the second was answered with one place,
\* then the first with two places, which are the ones shown.
C26_Witness ==
    /\ AllAnswered
    /\ ui.started = 2
    /\ ui.newest = {<<PlaceC>>}
    /\ ui.places = <<PlaceA, PlaceB>>
    /\ ui.list = displayAIRecommendations(<<PlaceA, PlaceB>>)

-----------------------------------------------------------------------------
\* Refining the refined list again.

RefiningTwiceWithNumbers ==
    /\ rf.phase = "refined" => rf.left = rf.places
    /\ rf.phase = "again" =>
          /\ rf.left = rf.out
          /\ (\A i \in DOMAIN rf.out : ~IsNaN(rf.out[i].refined_score)) =>
                rf.out2 = rf.out
          /\ \A i \in DOMAIN rf.out :
                \E j \in DOMAIN rf.out2 : rf.out2[j] = rf.out[i]
          /\ Len(rf.out2) = Len(rf.out)

=============================================================================
